---- MODULE Spec2Model ----
(***************************************************************************)
(* Model of the intent-processor service: the multi-strategy analyzer      *)
(* (services/robust_intent_analyzer.py), its result cache                  *)
(* (services/intent_cache.py), the provider factory                        *)
(* (services/llm_factory.py), the thought stream                           *)
(* (services/thought_stream.py) and the circuit breaker                    *)
(* (utils/resilience.py).                                                  *)
(*                                                                         *)
(* Confidence, progress and estimated hours are kept in hundredths (0.8   *)
(* is 80, 8 hours are 800).                                                *)
(* The analyzer clock counts hours, the breaker clock counts seconds.      *)
(***************************************************************************)
EXTENDS Integers, Sequences, FiniteSets, TLC

(***************************************************************************)
(* Bounds of the model.                                                    *)
(***************************************************************************)
MaxTime == 24
MaxThreshold == 2
MaxRecovery == 2
CbMaxTime == 5
NumCallers == 2
MaxCbCalls == 5
MaxRate == 3
MaxPer == 3
MaxLmTime == 4
MaxAcquires == 4
MaxTicks == 9
TicksPerSecond == 3
LimbBits == 14
FracLimbs == 5
MaxRetries == 4
MaxCacheOps == 4
MaxTasks == 2
MaxTaskId == 3
MaxQueues == 2
MaxEmits == 2
MaxListed == 2
MaxDeps == 2

(***************************************************************************)
(* Program constants.                                                      *)
(***************************************************************************)
ttl_hours == 24
GroqPriority == 10
OllamaPriority == 100
AnthropicPriority == 15
OpenAIPriority == 20
TopProviders == 3
FastThreshold == 50
HighEstimate == 40
CallArgs == 4
Mantissa == 53

VARIABLES
    providers,       \* llm_factory.providers: the configured provider names
    redis_client,    \* IntentCache.redis_client is set (TRUE) or None (FALSE)
    local_cache,     \* IntentCache.local_cache: key -> (result, timestamp)
    redis,           \* the shared store: key -> (data, time of the setex)
    active_streams,  \* ThoughtStream.active_streams: request id -> queue
    now,             \* the analyzer's clock, in hours
    uuid_next,       \* the number of uuid4() values drawn so far
    call,            \* the analyze_intent call in progress and its position
    invoked,         \* strategies invoked by the call in progress, in order
    outcomes,        \* what each of them did: "result", "none" or "raise"
    provider_ops,    \* is_available and generate calls made by the call
    cache_writes,    \* results the call handed to cache.set, in order
    ncalls,          \* analyze_intent calls started so far
    computed,        \* key -> the last result a call computed, and when
    cb,              \* the CircuitBreaker object
    cbNow,           \* the breaker's clock, in seconds
    inflight,        \* caller -> position inside the breaker's wrapper
    cbHist,          \* observations of the wrapped operation and its callers
    consumer,        \* the stream endpoint's generator and what it delivered
    limiter,         \* the RateLimiter object of process_intent
    lmNow,           \* the event loop's clock, in ticks
    acquires,        \* the acquire calls made so far: when, and the answer
    http_response,   \* what process_intent last reported to its caller
    retry,           \* one call through a retry_with_backoff wrapper
    race,            \* one execute_concurrent call and its candidates
    cacheOp,         \* the last operation on the IntentCache and its answer
    validation,      \* the last validate_tasks call and its answer
    selection,       \* the last get_provider call and its answer
    intentOp,        \* the last operation of an IntentAnalyzer on a task list
    ts,              \* a ThoughtStream: its queues, their readers, what was put
    strategyOp       \* the last call of one strategy helper and its answer

vars == <<providers, redis_client, local_cache, redis, active_streams, now,
          uuid_next, call, invoked, outcomes, provider_ops, cache_writes,
          ncalls, computed, cb, cbNow, inflight, cbHist, consumer,
          limiter, lmNow, acquires, http_response, retry, race, cacheOp,
          validation, selection, intentOp, ts, strategyOp>>

analyzerVars == <<providers, redis_client, local_cache, redis, active_streams,
                  now, uuid_next, call, invoked, outcomes, provider_ops,
                  cache_writes, ncalls, computed>>

breakerVars == <<cb, cbNow, inflight, cbHist>>

streamVars == <<consumer>>

\* The state of the parts other than the analyzer and the breaker.
endpointVars == <<limiter, lmNow, acquires, http_response>>

retryVars == <<retry>>

raceVars == <<race>>

cacheVars == <<cacheOp>>

validateVars == <<validation>>

selectionVars == <<selection>>

intentVars == <<intentOp>>

thoughtVars == <<ts>>

strategyVars == <<strategyOp>>

auxVars == <<streamVars, endpointVars, retryVars, raceVars, cacheVars,
             validateVars, selectionVars, intentVars, thoughtVars,
    strategyVars>>

\* What a step of the stream, of the endpoint, of a retry wrapper, of a
\* race or of a validation leaves alone.
exceptStream == <<breakerVars, endpointVars, retryVars, raceVars, cacheVars,
                  validateVars,
    selectionVars, intentVars, thoughtVars,
    strategyVars>>

exceptEndpoint == <<analyzerVars, breakerVars, streamVars, retryVars, raceVars,
                    cacheVars, validateVars,
    selectionVars, intentVars, thoughtVars,
    strategyVars>>

exceptRetry == <<analyzerVars, breakerVars, streamVars, endpointVars, raceVars,
                 cacheVars, validateVars,
    selectionVars, intentVars, thoughtVars,
    strategyVars>>

exceptRace == <<analyzerVars, breakerVars, streamVars, endpointVars, retryVars,
                cacheVars, validateVars,
    selectionVars, intentVars, thoughtVars,
    strategyVars>>

exceptCache == <<breakerVars, streamVars, endpointVars, retryVars, raceVars,
                 validateVars,
    selectionVars, intentVars, thoughtVars,
    strategyVars>>

exceptSelection == <<redis_client, local_cache, redis, active_streams, now,
                     uuid_next, call, invoked, outcomes, provider_ops,
                     cache_writes, ncalls, computed, breakerVars, streamVars,
                     endpointVars, retryVars, raceVars, cacheVars,
                     validateVars, intentVars, thoughtVars,
    strategyVars>>

exceptIntent == <<analyzerVars, breakerVars, streamVars, endpointVars,
                  retryVars, raceVars, cacheVars, validateVars,
                  selectionVars, thoughtVars, strategyVars>>

exceptThought == <<analyzerVars, breakerVars, streamVars, endpointVars,
                   retryVars, raceVars, cacheVars, validateVars,
                   selectionVars, intentVars, strategyVars>>

exceptStrategy == <<analyzerVars, breakerVars, streamVars, endpointVars,
                    retryVars, raceVars, cacheVars, validateVars,
                    selectionVars, intentVars, thoughtVars>>

exceptValidate == <<analyzerVars, breakerVars, streamVars, endpointVars,
                    retryVars, raceVars, cacheVars,
    selectionVars, intentVars, thoughtVars,
    strategyVars>>

(***************************************************************************)
(* Inputs.  A request text is kept as what the code reads of it: the rule  *)
(* keywords that occur in it as substrings and the number of distinct task *)
(* phrases its regular expressions find.                                   *)
(***************************************************************************)
Texts ==
    { [words |-> {"fix", "crash"}, phrases |-> 0],
      [words |-> {"create", "need", "api"}, phrases |-> 2] }

Contexts == {"None"}

RequestIds == {"r1"}

ProviderNames == {"groq", "ollama"}

Min(a, b) == IF a < b THEN a ELSE b

(***************************************************************************)
(* models.py: the validators of Task and IntentAnalysisResult.             *)
(***************************************************************************)
IntentTypeValues ==
    {"feature_request", "bug_fix", "refactoring", "documentation", "testing",
     "deployment", "configuration", "research", "unknown"}

\* Task.validate_estimated_hours: a value that is set must be positive.
validate_estimated_hours(v) == v > 0

validate_confidence_lax(v) == v >= 0

\* IntentAnalysisResult.validate_confidence: 0 <= v <= 1.
validate_confidence(v) == 0 <= v /\ v <= 100

NoResult == [kind |-> "none"]

IntentAnalysisResult(intent_type, confidence, tasks, strategy, error) ==
    [kind |-> "result", intent_type |-> intent_type, confidence |-> confidence,
     tasks |-> tasks, metadata |-> [strategy |-> strategy, error |-> error]]

Task(id, dependencies, estimated_hours) ==
    [id |-> id, dependencies |-> dependencies,
     estimated_hours |-> estimated_hours]

\* str(uuid4()): the n-th value drawn, distinct from every other one and
\* from the ids a provider writes (task_1 is 1, task_2 is 2).
uuid4(n) == -(n + 1)

(***************************************************************************)
(* What a strategy hands back to analyze_intent.                           *)
(***************************************************************************)
Returned(r) == [kind |-> "result", result |-> r]
ReturnedNone == [kind |-> "none"]
Raised(exc) == [kind |-> "raise", exc |-> exc]

(***************************************************************************)
(* Provider responses.  A response is garbage (no JSON in it) or a JSON    *)
(* object with an intent_type, a confidence and a list of task objects; a  *)
(* task object gives an id (0: the key is absent), its dependencies and    *)
(* its estimated_hours.                                                    *)
(***************************************************************************)
TaskData(id, dependencies, estimated_hours) ==
    [id |-> id, dependencies |-> dependencies,
     estimated_hours |-> estimated_hours]

JsonResponse(intent_type, confidence, tasks) ==
    [kind |-> "json", intent_type |-> intent_type, confidence |-> confidence,
     tasks |-> tasks]

Responses ==
    { [kind |-> "garbage"],
      \* confidence out of range, above and below
      JsonResponse("bug", 150, <<TaskData(1, {}, 800)>>),
      JsonResponse("bug", -20, <<TaskData(1, {}, 800)>>),
      \* no task, and no task that parses
      JsonResponse("bug_fix", 80, <<>>),
      JsonResponse("bug_fix", 80, <<TaskData(1, {}, 0)>>),
      \* one task without an id; one task that parses and one that does not
      JsonResponse("bug_fix", 80, <<TaskData(0, {}, 800)>>),
      JsonResponse("bug", 100, <<TaskData(1, {}, 0), TaskData(2, {}, 800)>>),
      \* the provider reuses an id
      JsonResponse("bug_fix", 80, <<TaskData(1, {}, 800), TaskData(1, {}, 800)>>),
      \* a dependency listed before, and after, its dependent
      JsonResponse("bug_fix", 0, <<TaskData(2, {}, 800), TaskData(1, {2}, 800)>>),
      JsonResponse("bug_fix", 80, <<TaskData(1, {2}, 800), TaskData(2, {}, 800)>>),
      \* a dependency cycle
      JsonResponse("bug_fix", 80, <<TaskData(1, {2}, 800), TaskData(2, {1}, 800)>>) }

GenerateOutcomes ==
    { [kind |-> "raise"] } \cup { [kind |-> "text", response |-> r] : r \in Responses }

\* An answer in the format the simple prompt asks for: a 'Type:' line and an
\* 'Hours:' line with a number, each of which may be missing.
LinesResponse(has_type, type, has_hours, hours) ==
    [kind |-> "lines", has_type |-> has_type, type |-> type,
     has_hours |-> has_hours, hours |-> hours]

\* An answer in the format the guided prompt asks for, 'Title | Type |
\* Hours | Priority': its lines, each with the parts that '|' separates.
TableResponse(lines) == [kind |-> "table", lines |-> lines]

TableResponses ==
    { \* no line, and no line with a '|'
      TableResponse(<<>>),
      TableResponse(<< <<"Here are the tasks">> >>),
      \* the heading of the format is a line of four parts itself
      TableResponse(<< <<"Title", "Type", "Hours", "Priority">>,
                       <<"Fix the crash", "backend", "3", "high">> >>),
      \* hours of 0, for which Task(...) raises, and hours that are not all
      \* digits
      TableResponse(<< <<"Tasks">>,
                       <<"Fix the crash", "backend", "0", "high">>,
                       <<"Add a test", "testing", "1.5", "low">> >>),
      \* a line of three parts; a line of five; only a line that raises
      TableResponse(<< <<"Fix the crash", "backend", "3">> >>),
      TableResponse(<< <<"Fix the crash", "backend", "8", "high", "">> >>),
      TableResponse(<< <<"Fix the crash", "backend", "0", "high">> >>) }

SimpleResponses ==
    { LinesResponse(TRUE, "bug", TRUE, 3),
      LinesResponse(TRUE, "new feature, with tests", TRUE, 0),
      LinesResponse(TRUE, "Refactor", FALSE, 0),
      LinesResponse(TRUE, "other", TRUE, 12),
      LinesResponse(FALSE, "", TRUE, 5),
      LinesResponse(FALSE, "", FALSE, 0) }

(***************************************************************************)
(* llm_factory.py: provider selection.                                     *)
(***************************************************************************)
\* The priority each provider class passes to LLMProvider.__init__.
Priority(p) ==
    CASE p = "groq" -> GroqPriority
      [] p = "anthropic" -> AnthropicPriority
      [] p = "openai" -> OpenAIPriority
      [] OTHER -> OllamaPriority

\* What is_available() of a configured provider can do: that of the hosted
\* providers only reads the api key, Ollama's probes the server.
ProbeOutcomes(p) ==
    IF p = "ollama" THEN {"true", "false", "raise"} ELSE {"true"}

Probes == { f \in [providers -> {"true", "false", "raise"}] :
              \A p \in providers : f[p] \in ProbeOutcomes(p) }

\* get_available_providers: the providers whose probe answered true; a probe
\* that raises counts as unavailable.
get_available_providers(probe) == { p \in providers : probe[p] = "true" }

\* get_provider(): the available provider of the smallest priority value.
get_provider(probe) ==
    LET available == get_available_providers(probe)
    IN  IF available = {} THEN "None"
        ELSE CHOOSE p \in available :
                 \A q \in available : Priority(p) <= Priority(q)

(***************************************************************************)
(* robust_intent_analyzer.py: parsing of provider output.                  *)
(***************************************************************************)
\* str.lower() on the strings a provider writes where an intent type is
\* expected.
lower(value) ==
    CASE value = "Bug_Fix" -> "bug_fix"
      [] value = "BUG" -> "bug"
      [] value = "Refactor" -> "refactor"
      [] value = "Title" -> "title"
      [] value = "Type" -> "type"
      [] value = "Hours" -> "hours"
      [] value = "Priority" -> "priority"
      [] value = "Tasks" -> "tasks"
      [] value = "Here are the tasks" -> "here are the tasks"
      [] value = "Fix the crash" -> "fix the crash"
      [] value = "Add a test" -> "add a test"
      [] OTHER -> value

\* The words the code looks for ('key in value') that occur in a lower-case
\* string: the enum values and the keys of the two keyword tables.
Fragments(value) ==
    CASE value = "feature_request" -> {"feature_request", "feature"}
      [] value = "bug_fix" -> {"bug_fix", "bug"}
      [] value = "refactoring" -> {"refactoring", "refactor"}
      [] value = "documentation" -> {"documentation", "doc"}
      [] value = "testing" -> {"testing", "test"}
      [] value = "deployment" -> {"deployment", "deploy"}
      [] value = "configuration" -> {"configuration", "config"}
      [] value = "research" -> {"research"}
      [] value = "unknown" -> {"unknown"}
      [] value = "docs" -> {"docs", "doc"}
      [] value = "a bug report" -> {"bug"}
      [] value = "add a test" -> {"test"}
      [] value = "new feature, with tests" -> {"feature", "test"}
      [] value \in {"feature", "bug", "refactor", "doc", "test", "deploy",
                    "config"} -> {value}
      [] OTHER -> {}

\* The strings tried as the intent type a provider names.
IntentStrings ==
    IntentTypeValues
    \cup {"feature", "bug", "refactor", "docs", "doc", "test", "deploy",
          "config", "Bug_Fix", "BUG", "Refactor", "a bug report",
          "new feature, with tests", "other"}

\* What generate() can do when a strategy is called by itself.
DirectOutcomes ==
    GenerateOutcomes
    \cup { [kind |-> "text", response |-> r] : r \in SimpleResponses }
    \cup { [kind |-> "text", response |-> r] : r \in TableResponses }
    \cup { [kind |-> "text", response |-> JsonResponse(v, 80, <<TaskData(1, {}, 800)>>)] :
              v \in IntentStrings }

\* The mappings table of _validate_intent_type, in its order.
intent_mappings ==
    << [key |-> "feature", intent |-> "feature_request"],
       [key |-> "bug", intent |-> "bug_fix"],
       [key |-> "refactor", intent |-> "refactoring"],
       [key |-> "docs", intent |-> "documentation"],
       [key |-> "test", intent |-> "testing"],
       [key |-> "deploy", intent |-> "deployment"],
       [key |-> "config", intent |-> "configuration"] >>

\* The first row of a keyword table whose key occurs in the string, 0 when
\* none does.
first_key(table, fragments) ==
    LET hits == { k \in 1..Len(table) : table[k].key \in fragments }
    IN  IF hits = {} THEN 0
        ELSE CHOOSE k \in hits : \A j \in hits : k <= j

\* _validate_intent_type: IntentType(value.lower()), else the first key of
\* the mappings table that occurs in value.lower(), else unknown.
validate_intent_type(value) ==
    LET v == lower(value)
        k == first_key(intent_mappings, Fragments(v))
    IN  IF v \in IntentTypeValues THEN v
        ELSE IF k = 0 THEN "unknown"
        ELSE intent_mappings[k].intent

\* 'for intent_type in IntentType': the enum values in their order, then
\* the if/elif chain of _extract_intent_type.
extract_table ==
    << [key |-> "feature_request", intent |-> "feature_request"],
       [key |-> "bug_fix", intent |-> "bug_fix"],
       [key |-> "refactoring", intent |-> "refactoring"],
       [key |-> "documentation", intent |-> "documentation"],
       [key |-> "testing", intent |-> "testing"],
       [key |-> "deployment", intent |-> "deployment"],
       [key |-> "configuration", intent |-> "configuration"],
       [key |-> "research", intent |-> "research"],
       [key |-> "unknown", intent |-> "unknown"],
       [key |-> "feature", intent |-> "feature_request"],
       [key |-> "bug", intent |-> "bug_fix"],
       [key |-> "refactor", intent |-> "refactoring"],
       [key |-> "doc", intent |-> "documentation"],
       [key |-> "test", intent |-> "testing"],
       [key |-> "deploy", intent |-> "deployment"] >>

\* _extract_intent_type on a text in which the given words occur.
extract_intent_type(fragments) ==
    LET k == first_key(extract_table, fragments)
    IN  IF k = 0 THEN "unknown" ELSE extract_table[k].intent

\* The words of the two tables that occur in the lower-cased text of a
\* response: those of the intent type it names and, in a table, those of
\* every part of every line.
response_fragments(response) ==
    IF response.kind = "json" THEN Fragments(lower(response.intent_type))
    ELSE IF response.kind = "lines" /\ response.has_type
         THEN Fragments(lower(response.type))
    ELSE IF response.kind = "table"
         THEN UNION { UNION { Fragments(lower(response.lines[i][k])) :
                                k \in 1..Len(response.lines[i]) } :
                        i \in 1..Len(response.lines) }
    ELSE {}

\* The line of a simple-format answer that holds 'type:', after its colon.
type_line_fragments(response) ==
    IF response.kind = "lines" /\ response.has_type
    THEN Fragments(lower(response.type))
    ELSE {}

\* The loop of _parse_json_response over data['tasks']: a task object whose
\* Task(...) construction raises is logged and left out; the others keep the
\* order of the response.  n counts the uuid4() values drawn before it.
RECURSIVE parse_tasks(_, _)
parse_tasks(datas, n) ==
    IF datas = <<>> THEN <<>>
    ELSE LET task_data == Head(datas)
             rest == parse_tasks(Tail(datas), n + 1)
         IN  IF validate_estimated_hours(task_data.estimated_hours)
             THEN <<Task(IF task_data.id = 0 THEN uuid4(n) ELSE task_data.id,
                         task_data.dependencies,
                         task_data.estimated_hours)>> \o rest
             ELSE rest

\* The end of _parse_json_response: None when no task is left or when the
\* result's own validation raises; otherwise the result, its tasks in the
\* order parsed.
analysis_result(intent_type, confidence, tasks) ==
    IF tasks = <<>> THEN ReturnedNone
    ELSE IF ~validate_confidence(confidence) THEN ReturnedNone
    ELSE Returned(IntentAnalysisResult(validate_intent_type(intent_type),
                                       confidence, tasks, "", ""))

\* _parse_json_response: None when no JSON parses; otherwise the tasks are
\* parsed and the result is made of them.
parse_json_response(response, n) ==
    IF response.kind # "json" THEN ReturnedNone
    ELSE analysis_result(response.intent_type, response.confidence,
                         parse_tasks(response.tasks, n))

\* The uuid4() values one parsed response can use: one per task object.
UuidsPerResponse == 2

\* _create_default_task
create_default_task(n) == Task(uuid4(n), {}, 800)

\* The numbers a response writes and float() of each, in hundredths.
NumberWords == {"0", "1", "3", "8", "0.8", "1.5", "-0.2"}

float_of(w) ==
    CASE w = "0" -> 0
      [] w = "1" -> 100
      [] w = "3" -> 300
      [] w = "8" -> 800
      [] w = "0.8" -> 80
      [] w = "1.5" -> 150
      [] OTHER -> -20

\* str.isdigit() of a part of a line: it is not empty and all its
\* characters are digits.
isdigit(part) == part \in {"0", "1", "3", "8"}

\* The loop of _parse_task_list from line i on.  A line is given by its
\* parts, which are what '|' separates, stripped; a line without '|' is one
\* part.  A line of four parts or more makes the task task_i, with the
\* hours of its third part when that is all digits and 8 otherwise, unless
\* Task(...) raises, which is logged.
RECURSIVE parse_task_lines(_, _)
parse_task_lines(lines, i) ==
    IF i > Len(lines) THEN <<>>
    ELSE LET parts == lines[i]
             estimated_hours == IF isdigit(parts[3]) THEN float_of(parts[3])
                                ELSE 800
             rest == parse_task_lines(lines, i + 1)
         IN  IF Len(parts) >= 4 /\ validate_estimated_hours(estimated_hours)
             THEN <<Task(i, {}, estimated_hours)>> \o rest
             ELSE rest

\* _parse_task_list: the tasks of the 'Title | Type | Hours | Priority'
\* lines of the response, and the default task when there is none.
parse_task_list(response, n) ==
    LET tasks == IF response.kind = "table"
                 THEN parse_task_lines(response.lines, 1) ELSE <<>>
    IN  IF tasks = <<>> THEN <<create_default_task(n)>> ELSE tasks

\* _create_minimal_result
create_minimal_result(n) ==
    IntentAnalysisResult("unknown", 10, <<create_default_task(n)>>, "",
                         "all_strategies_failed")

(***************************************************************************)
(* robust_intent_analyzer.py: the five strategies.  probe gives what each  *)
(* configured provider's is_available() does in this attempt, gen what     *)
(* generate() does, n the number of uuid4() values drawn so far.           *)
(***************************************************************************)
\* _llm_with_structured_output
llm_with_structured_output(text, probe, gen, n) ==
    LET provider == get_provider(probe)
    IN  IF provider = "None" THEN ReturnedNone
        ELSE IF gen.kind = "raise" THEN ReturnedNone
        ELSE parse_json_response(gen.response, n)

\* confidence=0.7 of _llm_with_guided_generation, in hundredths.
GuidedConfidence == 70

\* confidence=0.6 of _parse_simple_response, in hundredths.
SimpleConfidence == 60

\* _llm_with_guided_generation: three generate calls on one provider, for
\* the intent type, for the tasks and for the summary.  gens holds what the
\* calls did, in their order, up to the first that raised, after which no
\* other is made.
llm_with_guided_generation(text, probe, gens, n) ==
    LET provider == get_provider(probe)
    IN  IF provider = "None" THEN ReturnedNone
        ELSE IF \E k \in 1..Len(gens) : gens[k].kind = "raise"
             THEN ReturnedNone
        ELSE Returned(IntentAnalysisResult(
                 extract_intent_type(response_fragments(gens[1].response)),
                 GuidedConfidence, parse_task_list(gens[2].response, n),
                 "guided_generation", ""))

\* _parse_simple_response: the intent type read from the 'type:' line and
\* the hours from the first number of the 'hours:' line, a whole number,
\* 8 without one; Task(...) raises for hours that are not positive.
parse_simple_response(response, n) ==
    LET hours == IF response.kind = "lines" /\ response.has_hours
                 THEN response.hours * 100 ELSE 800
    IN  IF ~validate_estimated_hours(hours) THEN Raised("ValueError")
        ELSE Returned(IntentAnalysisResult(
                 extract_intent_type(type_line_fragments(response)),
                 SimpleConfidence, <<Task(uuid4(n), {}, hours)>>,
                 "simple_parse", ""))

\* _llm_with_simple_prompt: an exception of generate or of the parsing is
\* logged and None is returned.
llm_with_simple_prompt(text, probe, gen, n) ==
    LET provider == get_provider(probe)
    IN  IF provider = "None" THEN ReturnedNone
        ELSE IF gen.kind = "raise" THEN ReturnedNone
        ELSE IF parse_simple_response(gen.response, n).kind = "raise"
             THEN ReturnedNone
        ELSE parse_simple_response(gen.response, n)

\* The intent_rules table of _rule_based_with_nlp, in its order.
intent_rules ==
    << [intent |-> "feature_request",
        keywords |-> {"create", "build", "develop", "add", "implement", "need", "want"}],
       [intent |-> "bug_fix",
        keywords |-> {"fix", "bug", "error", "issue", "problem", "broken", "crash"}],
       [intent |-> "refactoring",
        keywords |-> {"refactor", "improve", "optimize", "enhance", "clean", "restructure"}],
       [intent |-> "documentation",
        keywords |-> {"document", "docs", "readme", "guide", "tutorial"}],
       [intent |-> "testing",
        keywords |-> {"test", "testing", "coverage", "unit test", "integration"}],
       [intent |-> "deployment",
        keywords |-> {"deploy", "release", "ship", "publish", "production"}],
       [intent |-> "configuration",
        keywords |-> {"config", "configure", "setup", "environment", "settings"}],
       [intent |-> "research",
        keywords |-> {"research", "investigate", "explore", "analyze", "study"}] >>

\* score = sum(2 if keyword in text_lower else 0 for keyword in keywords)
rule_score(text, k) == 2 * Cardinality(intent_rules[k].keywords \cap text.words)

\* _extract_tasks_from_text: at most three tasks task_1.., else the default.
extract_tasks_from_text(text, n) ==
    IF text.phrases = 0 THEN <<create_default_task(n)>>
    ELSE [k \in 1..Min(text.phrases, 3) |-> Task(k, {}, 400)]

\* _rule_based_with_nlp: max(scores, key=scores.get) is the first rule of
\* the highest score; confidence = min(score / 10, 0.9).
rule_based_with_nlp(text, n) ==
    LET scored == {k \in 1..Len(intent_rules) : rule_score(text, k) > 0}
        best == CHOOSE k \in scored :
                    \A j \in scored :
                        \/ rule_score(text, k) > rule_score(text, j)
                        \/ rule_score(text, k) = rule_score(text, j) /\ k <= j
    IN  Returned(IntentAnalysisResult(
            IF scored = {} THEN "unknown" ELSE intent_rules[best].intent,
            IF scored = {} THEN 30 ELSE Min(rule_score(text, best) * 10, 90),
            extract_tasks_from_text(text, n), "rule_based_nlp", ""))

\* _basic_keyword_analysis
basic_keyword_analysis(text, n) ==
    LET intent_type ==
            IF text.words \cap {"create", "build", "need"} # {} THEN "feature_request"
            ELSE IF text.words \cap {"fix", "bug", "error"} # {} THEN "bug_fix"
            ELSE IF "test" \in text.words THEN "testing"
            ELSE "unknown"
    IN  Returned(IntentAnalysisResult(intent_type, 40, <<Task(uuid4(n), {}, 800)>>,
                                      "basic_keywords", ""))

\* self.strategies, in its order.
strategies ==
    << "llm_with_structured_output", "llm_with_guided_generation",
       "llm_with_simple_prompt", "rule_based_with_nlp", "basic_keyword_analysis" >>

StrategyArity_four(i) == 4

\* The positional parameters each strategy method declares after self: only
\* _llm_with_structured_output declares request_id.
StrategyArity(i) == IF i = 1 THEN 4 ELSE 3

\* strategy(text, context, project_info, request_id): a call with more
\* positional arguments than the method declares raises TypeError before
\* the body runs.
InvokeStrategy(i, text, probe, gens, n) ==
    IF CallArgs > StrategyArity(i) THEN Raised("TypeError")
    ELSE CASE i = 1 -> llm_with_structured_output(text, probe, gens[1], n)
           [] i = 2 -> llm_with_guided_generation(text, probe, gens, n)
           [] i = 3 -> llm_with_simple_prompt(text, probe, gens[1], n)
           [] i = 4 -> rule_based_with_nlp(text, n)
           [] OTHER -> basic_keyword_analysis(text, n)

\* The body of strategy i runs and asks llm_factory for a provider.
ConsultsProviders(i) == CallArgs <= StrategyArity(i) /\ i <= 3

\* The is_available and generate calls one invocation of strategy i makes.
ProviderOps(i, probe, gen) ==
    IF ~ConsultsProviders(i) THEN 0
    ELSE Cardinality(providers)
         + (IF get_provider(probe) = "None" THEN 0
            ELSE IF i = 2 /\ gen.kind = "text" THEN 3 ELSE 1)

next_strategy_skip(i) == i + 2

\* 'for i, strategy in enumerate(self.strategies)': the strategy after i.
next_strategy(i) == i + 1

CaughtNarrow(exc) == exc = "ValueError"

\* 'except Exception' around a strategy: every exception class a strategy or
\* a provider raises derives from Exception.
Caught(exc) == exc \in {"Exception", "TypeError", "ValueError"}

(***************************************************************************)
(* robust_intent_analyzer.py: _rule_based_with_nlp and _parse_json_response*)
(* on the text of a provider response, each called by itself.  A response  *)
(* is a sequence of symbols: the characters { } [ ] : , and the double     *)
(* quote each stand for themselves, and any other symbol is a run of       *)
(* characters that holds none of them (a word, a number).                  *)
(***************************************************************************)
\* Keywords of the first two rules that a request text can contain.
RuleWords == {"create", "build", "develop", "add", "implement", "fix", "bug"}

RuleTexts == { [words |-> w, phrases |-> 0] : w \in SUBSET RuleWords }

Quote == "\""

\* The index of the first opening brace of s, 0 when it has none.
first_open(s) ==
    IF \E k \in 1..Len(s) : s[k] = "{"
    THEN CHOOSE k \in 1..Len(s) :
             s[k] = "{" /\ \A j \in 1..(k - 1) : s[j] # "{"
    ELSE 0

\* The index of the last closing brace of s, 0 when it has none.
last_close(s) ==
    IF \E k \in 1..Len(s) : s[k] = "}"
    THEN CHOOSE k \in 1..Len(s) :
             s[k] = "}" /\ \A j \in (k + 1)..Len(s) : s[j] # "}"
    ELSE 0

\* re.search(r'\{.*\}', response, re.DOTALL).group(): the match starts at
\* the first opening brace and '.*' is greedy, so it ends at the last
\* closing brace after it; <<>> stands for no match.
re_search_braces(response) ==
    LET a == first_open(response)
        b == last_close(response)
    IN  IF a # 0 /\ b > a THEN SubSeq(response, a, b) ELSE <<>>

\* What the JSON decoder gives for the value that starts at an index: the
\* value and the index after it, or no value.
NoValue == [ok |-> FALSE]
Scanned(val, next) == [ok |-> TRUE, val |-> val, next |-> next]

\* A JSON string that opens at index k: everything up to the next double
\* quote, braces and brackets included.
scan_string(s, k) ==
    IF \E j \in (k + 1)..Len(s) : s[j] = Quote
    THEN LET j == CHOOSE j \in (k + 1)..Len(s) :
                      s[j] = Quote /\ \A i \in (k + 1)..(j - 1) : s[i] # Quote
         IN  Scanned([t |-> "str", chars |-> SubSeq(s, k + 1, j - 1)], j + 1)
    ELSE NoValue

\* json's scanner: the value that starts at index k.  scan_members reads
\* the members of an object from index k on, scan_items the items of an
\* array; acc holds those read so far.
RECURSIVE scan_value(_, _), scan_members(_, _, _), scan_items(_, _, _)
scan_value(s, k) ==
    IF k > Len(s) THEN NoValue
    ELSE IF s[k] = "{"
         THEN IF k + 1 <= Len(s) /\ s[k + 1] = "}"
              THEN Scanned([t |-> "obj", members |-> <<>>], k + 2)
              ELSE scan_members(s, k + 1, <<>>)
    ELSE IF s[k] = "["
         THEN IF k + 1 <= Len(s) /\ s[k + 1] = "]"
              THEN Scanned([t |-> "arr", items |-> <<>>], k + 2)
              ELSE scan_items(s, k + 1, <<>>)
    ELSE IF s[k] = Quote THEN scan_string(s, k)
    ELSE IF s[k] \in NumberWords THEN Scanned([t |-> "num", word |-> s[k]], k + 1)
    ELSE IF s[k] \in {"true", "false", "null"}
         THEN Scanned([t |-> "lit", word |-> s[k]], k + 1)
    ELSE NoValue

scan_members(s, k, acc) ==
    IF k > Len(s) \/ s[k] # Quote THEN NoValue
    ELSE LET key == scan_string(s, k)
         IN  IF ~key.ok THEN NoValue
             ELSE IF key.next > Len(s) \/ s[key.next] # ":" THEN NoValue
             ELSE LET v == scan_value(s, key.next + 1)
                  IN  IF ~v.ok THEN NoValue
                      ELSE IF v.next > Len(s) THEN NoValue
                      ELSE LET all == Append(acc, [key |-> key.val.chars,
                                                   val |-> v.val])
                           IN  IF s[v.next] = ","
                               THEN scan_members(s, v.next + 1, all)
                               ELSE IF s[v.next] = "}"
                               THEN Scanned([t |-> "obj", members |-> all],
                                            v.next + 1)
                               ELSE NoValue

scan_items(s, k, acc) ==
    LET v == scan_value(s, k)
    IN  IF ~v.ok THEN NoValue
        ELSE IF v.next > Len(s) THEN NoValue
        ELSE LET all == Append(acc, v.val)
             IN  IF s[v.next] = "," THEN scan_items(s, v.next + 1, all)
                 ELSE IF s[v.next] = "]"
                 THEN Scanned([t |-> "arr", items |-> all], v.next + 1)
                 ELSE NoValue

\* json.loads(s): the value s holds from its first to its last character;
\* no value when s is not JSON or goes on after the value ('Extra data').
json_loads(s) ==
    LET r == scan_value(s, 1)
    IN  IF r.ok /\ r.next = Len(s) + 1 THEN r ELSE NoValue

\* The first statements of _parse_json_response: the text handed to
\* json.loads and what json.loads gives for it.
extract_json(response) ==
    LET match == re_search_braces(response)
        handed == IF match # <<>> THEN match ELSE response
    IN  [handed |-> handed, loaded |-> json_loads(handed)]

\* dict.get(key, default) on a parsed object: the last member of that key.
has_key(obj, key) == \E k \in 1..Len(obj.members) : obj.members[k].key = <<key>>

get(obj, key) ==
    LET k == CHOOSE k \in 1..Len(obj.members) :
                 /\ obj.members[k].key = <<key>>
                 /\ \A j \in (k + 1)..Len(obj.members) :
                        obj.members[j].key # <<key>>
    IN  obj.members[k].val

\* The Python string a JSON string stands for.
RECURSIVE text_of(_)
text_of(chars) ==
    IF chars = <<>> THEN "" ELSE Head(chars) \o text_of(Tail(chars))

\* float(v): of a number, of a string that writes one, of true and false.
can_float(v) ==
    \/ v.t = "num"
    \/ v.t = "str" /\ Len(v.chars) = 1 /\ v.chars[1] \in NumberWords
    \/ v.t = "lit" /\ v.word # "null"

float(v) ==
    IF v.t = "num" THEN float_of(v.word)
    ELSE IF v.t = "str" THEN float_of(v.chars[1])
    ELSE IF v.word = "true" THEN 100 ELSE 0

\* The id a task is written with: task_1 is 1, task_2 is 2, task_3 is 3, any
\* other name is 9.
written_id(name) ==
    CASE name = "task_1" -> 1
      [] name = "task_2" -> 2
      [] name = "task_3" -> 3
      [] OTHER -> 9

\* A value the model takes for a field declared str, and for one declared
\* List[str].
is_str(v) == v.t = "str"

is_str_list(v) ==
    /\ v.t = "arr"
    /\ \A k \in 1..Len(v.items) : v.items[k].t = "str"

\* The arguments of Task(...) for one item of data['tasks'] can be built
\* and pass the field types: the item is an object; id, title and
\* description are strings; type and complexity are strings, whose lower()
\* the validators call; estimated_hours is something float() takes;
\* dependencies, tags and acceptance_criteria are lists of strings.  A
\* priority of any kind gives the default.
task_builds(item) ==
    /\ item.t = "obj"
    /\ \A key \in {"id", "title", "description", "type", "complexity"} :
           has_key(item, key) => is_str(get(item, key))
    /\ has_key(item, "estimated_hours") => can_float(get(item, "estimated_hours"))
    /\ \A key \in {"dependencies", "tags", "acceptance_criteria"} :
           has_key(item, key) => is_str_list(get(item, key))

\* The task_data.get(...) calls of the loop, estimated_hours in hundredths.
task_data_of(item) ==
    TaskData(IF has_key(item, "id") THEN written_id(text_of(get(item, "id").chars))
             ELSE 0,
             IF has_key(item, "dependencies")
             THEN { written_id(text_of(get(item, "dependencies").items[k].chars)) :
                       k \in 1..Len(get(item, "dependencies").items) }
             ELSE {},
             IF has_key(item, "estimated_hours")
             THEN float(get(item, "estimated_hours"))
             ELSE 800)

\* The loop over data['tasks'] on the items read.  An item that is no
\* object raises AttributeError at task_data.get, before uuid4() is called.
\* For an object uuid4() is called, whether it has an id or not, and then
\* Task(...) raises or makes the task.  n counts the uuid4() values drawn
\* before the item.
RECURSIVE parse_task_items(_, _)
parse_task_items(items, n) ==
    IF items = <<>> THEN <<>>
    ELSE IF Head(items).t # "obj" THEN parse_task_items(Tail(items), n)
    ELSE IF ~task_builds(Head(items)) THEN parse_task_items(Tail(items), n + 1)
    ELSE parse_tasks(<<task_data_of(Head(items))>>, n)
             \o parse_task_items(Tail(items), n + 1)

\* A value of the metadata object as the result carries it: the text of a
\* string, the word of a number or literal, the kind of an object or array.
metadata_value(v) ==
    IF v.t = "str" THEN text_of(v.chars)
    ELSE IF v.t \in {"num", "lit"} THEN v.word
    ELSE v.t

\* data.get('metadata', {}) as the result's metadata: what the provider
\* wrote under strategy and error, "" for a key it did not write.
metadata_of(data) ==
    LET metadata == IF has_key(data, "metadata") THEN get(data, "metadata")
                    ELSE [t |-> "obj", members |-> <<>>]
    IN  [strategy |-> IF has_key(metadata, "strategy")
                      THEN metadata_value(get(metadata, "strategy")) ELSE "",
         error |-> IF has_key(metadata, "error")
                   THEN metadata_value(get(metadata, "error")) ELSE ""]

\* _parse_json_response on the text of a response: None when json.loads
\* raises, when the value is no object, when data['tasks'] is no list or
\* leaves no task, when intent_type or summary is no string, confidence no
\* number or metadata no object; otherwise the result made of the tasks
\* parsed, with the metadata the provider wrote.
parse_json_text(response, n) ==
    LET loaded == extract_json(response).loaded
        data == loaded.val
        tasks == IF has_key(data, "tasks") THEN get(data, "tasks")
                 ELSE [t |-> "arr", items |-> <<>>]
        parsed == analysis_result(
                      IF has_key(data, "intent_type")
                      THEN text_of(get(data, "intent_type").chars)
                      ELSE "unknown",
                      IF has_key(data, "confidence")
                      THEN float(get(data, "confidence")) ELSE 50,
                      parse_task_items(tasks.items, n))
    IN  IF ~loaded.ok THEN ReturnedNone
        ELSE IF data.t # "obj" THEN ReturnedNone
        ELSE IF tasks.t # "arr" THEN ReturnedNone
        ELSE IF has_key(data, "intent_type") /\ ~is_str(get(data, "intent_type"))
             THEN ReturnedNone
        ELSE IF has_key(data, "confidence") /\ ~can_float(get(data, "confidence"))
             THEN ReturnedNone
        ELSE IF has_key(data, "summary") /\ ~is_str(get(data, "summary"))
             THEN ReturnedNone
        ELSE IF has_key(data, "metadata") /\ get(data, "metadata").t # "obj"
             THEN ReturnedNone
        ELSE IF parsed.kind # "result" THEN parsed
        ELSE Returned([parsed.result EXCEPT !.metadata = metadata_of(data)])

\* The text of a JSON string, of a member, of a list of texts joined by
\* commas, of an object and of an array.
Str(w) == <<Quote, w, Quote>>
Member(key, text) == Str(key) \o <<":">> \o text

RECURSIVE Joined(_)
Joined(texts) ==
    IF texts = <<>> THEN <<>>
    ELSE IF Len(texts) = 1 THEN texts[1]
    ELSE texts[1] \o <<",">> \o Joined(Tail(texts))

Object(members) == <<"{">> \o Joined(members) \o <<"}">>
Array(items) == <<"[">> \o Joined(items) \o <<"]">>

\* A task object with an id and estimated_hours, and one whose title holds
\* a brace.
TaskText(id, hours) ==
    Object(<<Member("id", Str(id)), Member("estimated_hours", <<hours>>)>>)

TitledTaskText(title) ==
    Object(<<Member("title", Str(title)), Member("estimated_hours", <<"8">>)>>)

\* A task object whose title is a number.
TitledNumberTaskText ==
    Object(<<Member("title", <<"8">>), Member("estimated_hours", <<"8">>)>>)

\* An answer with an intent_type, a confidence and tasks.
AnswerText(intent_type, confidence, tasks) ==
    Object(<<Member("intent_type", intent_type),
             Member("confidence", confidence),
             Member("tasks", tasks)>>)

\* What a provider writes between its prose: answers that are JSON objects
\* and texts that are not.
RawObjects ==
    { AnswerText(Str("bug_fix"), <<"0.8">>, Array(<<TaskText("task_1", "8")>>)),
      AnswerText(Str("bug"), <<"0.8">>,
                 Array(<<TaskText("task_1", "8"),
                         Object(<<Member("id", Str("task_2")),
                                  Member("dependencies", Array(<<Str("task_1")>>))>>)>>)),
      AnswerText(Str("bug_fix"), <<"0.8">>, Array(<<TaskText("task_1", "0")>>)),
      AnswerText(Str("bug_fix"), <<"0.8">>, Array(<<>>)),
      AnswerText(Str("bug_fix"), <<"1.5">>, Array(<<TaskText("task_1", "8")>>)),
      AnswerText(Str("bug_fix"), Str("high"), Array(<<TaskText("task_1", "8")>>)),
      AnswerText(<<"8">>, <<"0.8">>, Array(<<TaskText("task_1", "8")>>)),
      AnswerText(Str("bug_fix"), <<"0.8">>, <<"8">>),
      AnswerText(Str("bug_fix"), <<"0.8">>, Array(<<TitledTaskText("}")>>)),
      AnswerText(Str("bug_fix"), <<"0.8">>, Array(<<TitledTaskText("{")>>)),
      Object(<<Member("tasks", Array(<<TaskText("task_1", "8")>>))>>),
      Object(<<Member("tasks", Array(<<Object(<<>>), <<"8">>>>)),
               Member("metadata", Object(<<>>))>>),
      Object(<<Member("a", Str("}"))>>),
      \* hours that are no whole number; members of another type than the
      \* models declare; metadata the provider wrote
      AnswerText(Str("bug_fix"), <<"0.8">>,
                 Array(<<TaskText("task_1", "1.5"), TaskText("task_2", "0.8"),
                         TaskText("task_3", "-0.2")>>)),
      Object(<<Member("tasks", Array(<<TaskText("task_1", "8"),
                                       TitledNumberTaskText>>)),
               Member("metadata", Object(<<Member("strategy", Str("rule_based_nlp")),
                                           Member("error", <<"8">>)>>))>>),
      Object(<<Member("tasks", Array(<<
                   Object(<<Member("description", <<"null">>)>>),
                   Object(<<Member("tags", Array(<<<<"8">>>>))>>),
                   Object(<<Member("acceptance_criteria", Str("x"))>>)>>))>>),
      Object(<<Member("tasks", Array(<<TaskText("task_1", "8")>>)),
               Member("summary", <<"8">>)>>),
      \* a task object without an id after an item that is no object, an
      \* object that makes no task and an object with an id
      Object(<<Member("tasks", Array(<<<<"8">>, TitledNumberTaskText,
                                       TaskText("task_1", "8"),
                                       TitledTaskText("x")>>))>>),
      Object(<<>>),
      Array(<<>>),
      <<"{", "x", "}">>,
      <<"{", "{", "}", "}">>,
      <<"{", Quote, "tasks", Quote, ":", "[", "]", ",", "}">>,
      <<"{">>,
      <<>> }

RawPrefixes == {<<>>, <<"Sure">>, <<"Sure", ":">>}

RawSuffixes ==
    {<<>>, <<"done">>, <<"}">>, <<"{", "}">>,
     Object(<<Member("a", <<"1">>)>>), <<Quote, "}", Quote>>}

RawResponses ==
    { p \o o \o s : p \in RawPrefixes, o \in RawObjects, s \in RawSuffixes }

\* _rule_based_with_nlp called on a text.
RuleBasedWithNlp ==
    /\ strategyOp.kind = "none"
    /\ \E text \in RuleTexts :
          strategyOp' = [kind |-> "rule_based", text |-> text,
                         ret |-> rule_based_with_nlp(text, 0)]
    /\ UNCHANGED exceptStrategy

\* _parse_json_response called on a raw response.
ParseJsonResponse ==
    /\ strategyOp.kind = "none"
    /\ \E response \in RawResponses :
          strategyOp' =
              [kind |-> "parse_json", response |-> response,
               handed |-> extract_json(response).handed,
               ret |-> parse_json_text(response, 0)]
    /\ UNCHANGED exceptStrategy

(***************************************************************************)
(* intent_cache.py                                                         *)
(***************************************************************************)
\* self.ttl = timedelta(hours=ttl_hours), in the clock's unit.
ttl == ttl_hours

NoEntry == [present |-> FALSE]

\* _generate_key: the md5 of the text and of json.dumps(context or {}).
generate_key(text, context) == <<text, IF context = "None" THEN "{}" ELSE context>>

Keys == {generate_key(t, c) : t \in Texts, c \in Contexts}

\* What an operation on the shared store can do.
RedisOutcomes == {"ok", "error"}

\* The outcome handed to a step that does not reach the shared store.
UnreadRedisOutcome == "ok"

LocalFresh_never(key) == FALSE

\* The local entry is there and younger than the TTL.
LocalFresh(key) ==
    /\ local_cache[key].present
    /\ now - local_cache[key].timestamp < ttl

\* get reaches 'self.redis_client.get(key)': it has not returned from the
\* local map and a shared store is connected.
reads_store(key) == ~LocalFresh(key) /\ redis_client

\* The shared store still holds the key: setex expires it after the TTL.
RedisHolds(key) ==
    /\ redis[key].present
    /\ now - redis[key].at < ttl

\* IntentCache.get: the result (NoResult for None) and the local map after it.
\* origin is not a field of the code: it keeps, for an entry, the time of the
\* set that created it.
cache_get(key, redisOutcome) ==
    IF LocalFresh(key)
    THEN [result |-> local_cache[key].result, local |-> local_cache,
          origin |-> local_cache[key].origin]
    ELSE LET dropped == [local_cache EXCEPT ![key] = NoEntry]
         IN  IF redis_client /\ redisOutcome = "ok" /\ RedisHolds(key)
             THEN [result |-> redis[key].data,
                   local |-> [dropped EXCEPT ![key] =
                                 [present |-> TRUE, result |-> redis[key].data,
                                  timestamp |-> now, origin |-> redis[key].at]],
                   origin |-> redis[key].at]
             ELSE [result |-> NoResult, local |-> dropped, origin |-> now]

cache_set_local_dropped(key, result) == local_cache

\* IntentCache.set: the local map and the shared store after it; a failed
\* write to the shared store is logged and swallowed.
cache_set_local(key, result) ==
    [local_cache EXCEPT ![key] =
        [present |-> TRUE, result |-> result, timestamp |-> now,
         origin |-> now]]

cache_set_redis(key, result, redisOutcome) ==
    IF redis_client /\ redisOutcome = "ok"
    THEN [redis EXCEPT ![key] = [present |-> TRUE, data |-> result, at |-> now]]
    ELSE redis

cache_except_json_only(exc) == exc = "ValueError"

\* 'except Exception' around the shared-store part of get and of set: the
\* errors of the redis client and of json derive from Exception.
cache_except(exc) == exc \in {"Exception", "RedisError", "ValueError"}

\* An operation on the shared store that fails raises a RedisError; get or
\* set raises when its except clause does not catch it.
cache_raises(redisOutcome) ==
    redis_client /\ redisOutcome = "error" /\ ~cache_except("RedisError")

\* The values the cache is given: the result of the keyword strategy and the
\* minimal result.
CacheValues ==
    { basic_keyword_analysis(CHOOSE t \in Texts : TRUE, 0).result,
      create_minimal_result(0) }

NoSet == [present |-> FALSE]

NoCacheOp == [kind |-> "none", ops |-> 0, last_set |-> [k \in Keys |-> NoSet]]

\* IntentCache.get on the instance at hand.
CacheGet(key, redisOutcome) ==
    LET got == cache_get(key, redisOutcome)
        raises == ~LocalFresh(key) /\ cache_raises(redisOutcome)
    IN  /\ cacheOp.ops < MaxCacheOps
        /\ (~redis_client \/ LocalFresh(key)) => redisOutcome = UnreadRedisOutcome
        /\ local_cache' = got.local
        /\ cacheOp' = [kind |-> "get", ops |-> cacheOp.ops + 1,
                       last_set |-> cacheOp.last_set, key |-> key,
                       result |-> IF raises THEN NoResult ELSE got.result,
                       raised |-> raises, at |-> now, origin |-> got.origin,
                       redis_failed |-> redis_client /\ redisOutcome = "error",
                       store_read |-> reads_store(key)]
        /\ UNCHANGED <<providers, redis_client, redis, active_streams, now,
                       uuid_next, call, invoked, outcomes, provider_ops,
                       cache_writes, ncalls, computed>>
        /\ UNCHANGED exceptCache

\* IntentCache.set on the instance at hand.
CacheSet(key, value, redisOutcome) ==
    LET failed == redis_client /\ redisOutcome = "error"
        this == [present |-> TRUE, value |-> value, at |-> now,
                 redis_failed |-> failed]
    IN  /\ cacheOp.ops < MaxCacheOps
        /\ ~redis_client => redisOutcome = UnreadRedisOutcome
        /\ local_cache' = cache_set_local(key, value)
        /\ redis' = cache_set_redis(key, value, redisOutcome)
        /\ cacheOp' = [kind |-> "set", ops |-> cacheOp.ops + 1,
                       last_set |-> [cacheOp.last_set EXCEPT ![key] = this],
                       key |-> key, result |-> value,
                       raised |-> cache_raises(redisOutcome), at |-> now,
                       origin |-> now, redis_failed |-> failed]
        /\ UNCHANGED <<providers, redis_client, active_streams, now, uuid_next,
                       call, invoked, outcomes, provider_ops, cache_writes,
                       ncalls, computed>>
        /\ UNCHANGED exceptCache

\* Another analyzer instance on the same shared store (a second replica, or
\* the service started again): IntentCache.__init__ with an empty local map.
NewInstance ==
    /\ redis_client
    /\ \E k \in Keys : local_cache[k].present
    /\ local_cache' = [k \in Keys |-> NoEntry]
    /\ cacheOp' = [NoCacheOp EXCEPT !.ops = cacheOp.ops]
    /\ UNCHANGED <<providers, redis_client, redis, active_streams, now,
                   uuid_next, call, invoked, outcomes, provider_ops,
                   cache_writes, ncalls, computed>>
    /\ UNCHANGED exceptCache

\* An input that a step does not read is fixed to one value, so that a step
\* is enumerated once for each combination of the inputs it does read.
UnreadGen == [kind |-> "raise"]

UnreadProbe == CHOOSE f \in Probes : TRUE

\* The calls of analyze_intent, in the order they are made.
Calls == {1, 2}

Idle == [pc |-> "idle", text |-> CHOOSE t \in Texts : TRUE, context |-> "None",
         request_id |-> "None", i |-> 0, started |-> 0, ret |-> NoResult,
         raised |-> FALSE, available |-> FALSE, rejected |-> FALSE,
         provider |-> "None", answers |-> <<>>, result |-> NoResult,
         step |-> 0,
         emitted |-> 0, prior |-> NoEntry, acquire |-> 0, entered |-> 0]

CallKey(c) == generate_key(call[c].text, call[c].context)

\* The call is on the event loop: it has been resumed and has not reached
\* its next wait.
Running(c) == call[c].pc \in {"strategies", "minimal"}

\* Every call made has returned.  The clock goes in steps of half the ttl
\* (12 hours) and a call takes seconds, so a step of the clock falls between
\* calls; what takes no time (clear_old_entries, another call) can fall
\* within one.
NoCallInProgress == \A c \in Calls : call[c].pc \in {"idle", "done", "cancelled"}

\* No call is on the event loop, so that another coroutine can be resumed.
LoopFree == \A c \in Calls : ~Running(c)

(***************************************************************************)
(* thought_stream.py                                                       *)
(***************************************************************************)
NoStream == [open |-> FALSE, queue |-> <<>>]

\* A thought.  The program's thoughts do not tell which analyze_intent call
\* emitted them; the model notes the call on each (0: none) so that the
\* thoughts of one call can be told from those of another.
Thought(type, progress) == [type |-> type, progress |-> progress, call |-> 0]

\* The thoughts that call c emits.
emitted_by(c, thoughts) ==
    [k \in 1..Len(thoughts) |-> [thoughts[k] EXCEPT !.call = c]]

\* emit_thought, for each thought of the sequence in turn: put on the
\* request's queue, or dropped with a warning when no stream is open.  The
\* analyzer emits only 'if request_id'.
emit_thoughts(streams, request_id, thoughts) ==
    IF request_id = "None" \/ ~streams[request_id].open THEN streams
    ELSE [streams EXCEPT ![request_id].queue = @ \o thoughts]

\* emit_detailed_analysis with all five keys given.
detailed_analysis ==
    << Thought("understanding", 10), Thought("analyzing", 30),
       Thought("classifying", 50), Thought("decomposing", 70),
       Thought("planning", 90), Thought("complete", 100) >>

\* create_stream: a new empty queue under the request id.
create_stream(request_id) ==
    [active_streams EXCEPT ![request_id] = [open |-> TRUE, queue |-> <<>>]]

\* close_stream: the sentinel None is put on the queue and the id is deleted
\* from active_streams; nothing when the id is not there.
close_stream(request_id) ==
    IF active_streams[request_id].open
    THEN [active_streams EXCEPT ![request_id] = NoStream]
    ELSE active_streams

\* The requests to the stream endpoint, in the order they arrive.
Consumers == {1, 2}

\* A request to the stream endpoint that has not arrived.  A generator
\* keeps the queue it got from active_streams: attached tells that this
\* queue is still the one under its request id, and queue holds what is
\* left on a queue that no longer is.
NoConsumer == [pc |-> "none", request_id |-> "None", delivered |-> 0,
               attached |-> FALSE, queue |-> <<>>]

EndOfStream == Thought("sentinel", -1)

\* The generator whose queue is the one under the request id.
Attached(k, request_id) ==
    /\ consumer[k].pc = "waiting"
    /\ consumer[k].request_id = request_id
    /\ consumer[k].attached

\* The generators after the queue under a request id was taken out of
\* active_streams, with what was put on it last: the generator that holds
\* the queue keeps it.
detached(request_id, last) ==
    [k \in Consumers |->
        IF Attached(k, request_id)
        THEN [consumer[k] EXCEPT
                 !.attached = FALSE,
                 !.queue = active_streams[request_id].queue \o last]
        ELSE consumer[k]]

\* The generators after close_stream: the sentinel goes on the queue under
\* the id, if there is one.
closed(request_id) ==
    IF active_streams[request_id].open
    THEN detached(request_id, <<EndOfStream>>)
    ELSE consumer

\* The stream endpoint (stream_intent_thoughts.event_generator): it creates
\* the stream, which replaces a queue that is under the id, and enters
\* stream_thoughts, which waits on the new queue.
StreamOpen(k, request_id) ==
    /\ consumer[k].pc = "none"
    /\ \A j \in Consumers : j < k => consumer[j].pc # "none"
    /\ LoopFree
    /\ active_streams' = create_stream(request_id)
    /\ consumer' = [detached(request_id, <<>>) EXCEPT ![k] =
                        [pc |-> "waiting", request_id |-> request_id,
                         delivered |-> 0, attached |-> TRUE, queue |-> <<>>]]
    /\ UNCHANGED <<providers, redis_client, local_cache, redis, now, uuid_next,
                   call, invoked, outcomes, provider_ops, cache_writes, ncalls,
                   computed>>
    /\ UNCHANGED exceptStream

\* The queue a generator reads.
queue_of(k) ==
    IF consumer[k].attached THEN active_streams[consumer[k].request_id].queue
    ELSE consumer[k].queue

\* stream_thoughts, one round of its loop: a thought taken from the queue is
\* yielded; the sentinel ends the loop and the finally clause closes the
\* stream that is under the id by then.
StreamDeliver(k) ==
    LET request_id == consumer[k].request_id
    IN  /\ consumer[k].pc = "waiting"
        /\ LoopFree
        /\ queue_of(k) # <<>>
        /\ IF Head(queue_of(k)) = EndOfStream
           THEN /\ active_streams' = close_stream(request_id)
                /\ consumer' = [closed(request_id) EXCEPT ![k] =
                                    [consumer[k] EXCEPT !.pc = "closed",
                                                        !.attached = FALSE,
                                                        !.queue = <<>>]]
           ELSE IF consumer[k].attached
           THEN /\ active_streams' =
                       [active_streams EXCEPT ![request_id].queue = Tail(@)]
                /\ consumer' = [consumer EXCEPT ![k].delivered = @ + 1]
           ELSE /\ consumer' = [consumer EXCEPT ![k].delivered = @ + 1,
                                                ![k].queue = Tail(@)]
                /\ UNCHANGED active_streams
        /\ UNCHANGED <<providers, redis_client, local_cache, redis, now,
                       uuid_next, call, invoked, outcomes, provider_ops,
                       cache_writes, ncalls, computed>>
        /\ UNCHANGED exceptStream

\* stream_thoughts is cancelled while it waits (the client went away): the
\* CancelledError is raised again and the finally clause closes the stream
\* that is under the id by then.
StreamCancel(k) ==
    LET request_id == consumer[k].request_id
    IN  /\ consumer[k].pc = "waiting"
        /\ LoopFree
        /\ active_streams' = close_stream(request_id)
        /\ consumer' = [closed(request_id) EXCEPT ![k] =
                            [consumer[k] EXCEPT !.pc = "closed",
                                                !.attached = FALSE,
                                                !.queue = <<>>]]
        /\ UNCHANGED <<providers, redis_client, local_cache, redis, now,
                       uuid_next, call, invoked, outcomes, provider_ops,
                       cache_writes, ncalls, computed>>
        /\ UNCHANGED exceptStream

(***************************************************************************)
(* thought_stream.py: the ThoughtStream object by itself.  A queue is an   *)
(* object of its own: active_streams maps a request id to the number of    *)
(* its queue (0: the id is not a key), and a reader keeps the queue it      *)
(* found when stream_thoughts began.  An event is the number of the        *)
(* emit_thought call that made it; None, the sentinel, is 0.               *)
(***************************************************************************)
StreamIds == {"r1", "r2"}

Sentinel == 0

NoReader == [pc |-> "none", id |-> "None", yielded |-> <<>>]

NoCall == [op |-> "none"]

\* ThoughtStream.__init__: no stream, and no queue made yet.  put keeps all
\* that was ever put on a queue, in order; last is the last call of
\* emit_thought or stream_thoughts, if no other operation came after it.
ThoughtStream ==
    [active |-> [id \in StreamIds |-> 0],
     queues |-> [q \in 1..MaxQueues |-> <<>>],
     put |-> [q \in 1..MaxQueues |-> <<>>],
     readers |-> [q \in 1..MaxQueues |-> NoReader],
     made |-> 0, emits |-> 0, last |-> NoCall]

\* queue.put(item) on a queue without a size limit: it never waits.
queue_put(t, q, item) ==
    [t EXCEPT !.queues[q] = Append(@, item), !.put[q] = Append(@, item)]

\* create_stream: a new queue under the id, in place of the one it had.
ts_create_stream(t, id) ==
    [t EXCEPT !.made = @ + 1, !.active[id] = t.made + 1]

\* close_stream: for an id that is a key, None is put on its queue and the
\* key is deleted.
ts_close_stream(t, id) ==
    IF t.active[id] # 0
    THEN [queue_put(t, t.active[id], Sentinel) EXCEPT !.active[id] = 0]
    ELSE t

emit_thought_creating(t, id, n) ==
    queue_put(IF t.active[id] # 0 \/ t.made = MaxQueues THEN t
              ELSE ts_create_stream(t, id),
              IF t.active[id] # 0 THEN t.active[id]
              ELSE IF t.made = MaxQueues THEN MaxQueues ELSE t.made + 1, n)

\* emit_thought: a warning and a return when the id is not a key, else the
\* thought is put on the id's queue.
emit_thought(t, id, n) ==
    IF t.active[id] = 0 THEN t
    ELSE queue_put(t, t.active[id], n)

is_sentinel_never(thought) == FALSE

\* 'if thought is None'
is_sentinel(thought) == thought = Sentinel

CreateStream(id) ==
    /\ ts.made < MaxQueues
    /\ ts' = [ts_create_stream(ts, id) EXCEPT
                 !.last = NoCall]
    /\ UNCHANGED exceptThought

CloseStream(id) ==
    /\ ts' = [ts_close_stream(ts, id) EXCEPT
                 !.last = NoCall]
    /\ UNCHANGED exceptThought

EmitThought(id) ==
    /\ ts.emits < MaxEmits
    /\ ts' = [emit_thought(ts, id, ts.emits + 1) EXCEPT
                 !.emits = @ + 1,
                 !.last = [op |-> "emit_thought", id |-> id,
                           found |-> ts.active[id] # 0]]
    /\ UNCHANGED exceptThought

\* stream_thoughts up to its first wait: the queue is looked up once; with
\* no queue the generator ends at once.  One reader per queue.
StreamThoughts(id) ==
    LET q == ts.active[id]
    IN  /\ q # 0 => ts.readers[q].pc = "none"
        /\ ts' = IF q = 0
                 THEN [ts EXCEPT !.last = [op |-> "stream_thoughts", id |-> id,
                                           found |-> FALSE]]
                 ELSE [ts EXCEPT
                         !.readers[q] = [pc |-> "waiting", id |-> id,
                                         yielded |-> <<>>],
                         !.last = [op |-> "stream_thoughts", id |-> id,
                                   found |-> TRUE]]
        /\ UNCHANGED exceptThought

\* One round of the loop of stream_thoughts: the sentinel ends the loop and
\* the finally clause closes the stream of the id; a thought is yielded.
ReaderNext(q) ==
    /\ ts.readers[q].pc = "waiting"
    /\ ts.queues[q] # <<>>
    /\ LET thought == Head(ts.queues[q])
           taken == [ts EXCEPT !.queues[q] = Tail(@)]
       IN  ts' = IF is_sentinel(thought)
                 THEN [ts_close_stream(taken, ts.readers[q].id) EXCEPT
                          !.readers[q].pc = "ended",
                          !.last = NoCall]
                 ELSE [taken EXCEPT
                          !.readers[q].yielded = Append(@, thought),
                          !.last = NoCall]
    /\ UNCHANGED exceptThought

\* The reader is cancelled while it waits: CancelledError goes through the
\* finally clause, which closes the stream of the id.
ReaderCancel(q) ==
    /\ ts.readers[q].pc = "waiting"
    /\ ts' = [ts_close_stream(ts, ts.readers[q].id) EXCEPT
                 !.readers[q].pc = "cancelled",
                 !.last = NoCall]
    /\ UNCHANGED exceptThought

(***************************************************************************)
(* robust_intent_analyzer.py: analyze_intent.  The service runs its        *)
(* coroutines on one event loop: a call runs until it awaits something     *)
(* that is not ready (the gather of get_available_providers, generate of a *)
(* provider, asyncio.sleep of emit_detailed_analysis) and other calls and  *)
(* the stream endpoint run while it waits.  The cache and the queues never *)
(* make a call wait: the redis client is the synchronous one and a queue   *)
(* has no size limit.  There is one action per stretch between two waits.  *)
(***************************************************************************)
\* The number of thoughts a call emits with a sequence of thoughts.
Emitting(request_id, thoughts) ==
    IF request_id = "None" THEN 0 ELSE Len(thoughts)

\* 'for i, strategy in enumerate(self.strategies)' comes round after
\* strategy i returned None or raised: the next strategy, or the minimal
\* result after the last one.
loop_next(rec) ==
    IF next_strategy(rec.i) <= Len(strategies)
    THEN [rec EXCEPT !.pc = "strategies", !.i = next_strategy(rec.i)]
    ELSE [rec EXCEPT !.pc = "minimal", !.i = next_strategy(rec.i)]

\* Lines 66-88: the first thought, the cache lookup and the return of a
\* hit; after a miss the call goes on to the loop without waiting.
analyze_start(c, text, context, request_id, redisOutcome) ==
    LET key == generate_key(text, context)
        got == cache_get(key, redisOutcome)
        hit == got.result # NoResult
        thoughts == <<Thought("understanding", 5)>>
                    \o (IF hit THEN <<Thought("complete", 100)>> ELSE <<>>)
    IN  /\ LoopFree
        /\ (~redis_client \/ LocalFresh(key)) => redisOutcome = UnreadRedisOutcome
        /\ ncalls' = ncalls + 1
        /\ local_cache' = got.local
        /\ call' = [call EXCEPT ![c] =
                       [call[c] EXCEPT
                           !.pc = IF hit THEN "done" ELSE "strategies",
                           !.text = text, !.context = context,
                           !.request_id = request_id,
                           !.i = IF hit THEN 0 ELSE 1,
                           !.started = now, !.ret = got.result,
                           !.emitted = Emitting(request_id, thoughts),
                           !.prior = computed[key]]]
        /\ active_streams' = emit_thoughts(active_streams, request_id,
                                           emitted_by(c, thoughts))
        /\ UNCHANGED <<providers, redis_client, redis, now, uuid_next, invoked,
                       outcomes, provider_ops, cache_writes, computed>>
        /\ UNCHANGED <<breakerVars, auxVars>>

\* analyze_intent is called: the calls take the slots in their order.
AnalyzeStart(text, context, request_id, redisOutcome) ==
    /\ ncalls + 1 \in Calls
    /\ call[ncalls + 1].pc = "idle"
    /\ analyze_start(ncalls + 1, text, context, request_id, redisOutcome)

\* Lines 123-125 for a call without request_id: cache.set and the return.
\* Lines 110-121 for a call with one: the first thought of
\* emit_detailed_analysis, after which the call sleeps.
win(c, rec, result, streams, redisOutcome) ==
    IF rec.request_id = "None"
    THEN /\ local_cache' = cache_set_local(CallKey(c), result)
         /\ redis' = cache_set_redis(CallKey(c), result, redisOutcome)
         /\ cache_writes' = [cache_writes EXCEPT ![c] = Append(@, result)]
         /\ computed' = [computed EXCEPT ![CallKey(c)] =
                            [present |-> TRUE, result |-> result, at |-> now,
                             by |-> c]]
         /\ call' = [call EXCEPT ![c] =
                        [rec EXCEPT !.pc = "done", !.ret = result]]
         /\ active_streams' = streams
    ELSE /\ call' = [call EXCEPT ![c] =
                        [rec EXCEPT !.pc = "detail", !.result = result,
                                    !.step = 1, !.emitted = @ + 1]]
         /\ active_streams' =
                emit_thoughts(streams, rec.request_id,
                              emitted_by(c, <<detailed_analysis[1]>>))
         /\ UNCHANGED <<local_cache, redis, cache_writes, computed>>

\* The except clause of the loop: the exception is logged, an error thought
\* is emitted and the loop comes round; an exception the clause does not
\* catch leaves analyze_intent.
lose(c, rec, outcome, streams) ==
    /\ IF outcome.kind = "none"
       THEN /\ call' = [call EXCEPT ![c] = loop_next(rec)]
            /\ active_streams' = streams
       ELSE IF Caught(outcome.exc)
       THEN /\ call' = [call EXCEPT ![c] =
                           [loop_next(rec) EXCEPT
                               !.emitted = @ + Emitting(rec.request_id, <<1>>)]]
            /\ active_streams' =
                   emit_thoughts(streams, rec.request_id,
                                 emitted_by(c, <<Thought("error", -1)>>))
       ELSE /\ call' = [call EXCEPT ![c] =
                           [rec EXCEPT !.pc = "done", !.raised = TRUE]]
            /\ active_streams' = streams
    /\ UNCHANGED <<local_cache, redis, cache_writes, computed>>

\* What a strategy's answer leads to.
settle(c, rec, outcome, streams, redisOutcome) ==
    /\ outcomes' = [outcomes EXCEPT ![c] = Append(@, outcome.kind)]
    /\ IF outcome.kind = "result"
       THEN win(c, rec, outcome.result, streams, redisOutcome)
       ELSE lose(c, rec, outcome, streams)

\* The checks of the providers by which get_provider found a provider.
probe_of(provider) ==
    [p \in providers |-> IF p = provider THEN "true" ELSE "false"]

\* A provider response with a confidence out of range or without a task
\* that parses.
unusable(response) ==
    /\ response.kind = "json"
    /\ \/ response.confidence > 100
       \/ response.confidence < 0
       \/ \A k \in 1..Len(response.tasks) :
              response.tasks[k].estimated_hours <= 0

\* get_available_providers makes the call wait: asyncio.gather of at least
\* one check is not done when it is awaited, the gather of none is.
gather_waits == providers # {}

\* Lines 91-105: the loop comes to strategy i, emits its thought and calls
\* it.  The call raises TypeError at once, or waits for the providers'
\* checks, or finds no provider configured and gets None, or, for the
\* strategies that use no provider, gets their answer.
AttemptStrategy(c, redisOutcome) ==
    LET i == call[c].i
        analyzing == <<Thought("analyzing", 10 + (i - 1) * 15)>>
        streams == emit_thoughts(active_streams, call[c].request_id,
                                 emitted_by(c, analyzing))
        rec == [call[c] EXCEPT
                   !.emitted = @ + Emitting(call[c].request_id, analyzing)]
        outcome == IF ConsultsProviders(i) THEN ReturnedNone
                   ELSE InvokeStrategy(i, call[c].text, UnreadProbe,
                                       <<UnreadGen>>, uuid_next)
    IN  /\ call[c].pc = "strategies"
        /\ (~redis_client \/ outcome.kind # "result" \/ call[c].request_id # "None")
               => redisOutcome = UnreadRedisOutcome
        /\ invoked' = [invoked EXCEPT ![c] = Append(@, i)]
        /\ IF ConsultsProviders(i) /\ gather_waits
           THEN /\ call' = [call EXCEPT ![c] = [rec EXCEPT !.pc = "get_provider"]]
                /\ active_streams' = streams
                /\ UNCHANGED <<local_cache, redis, cache_writes, computed,
                               outcomes, uuid_next>>
           ELSE /\ settle(c, rec, outcome, streams, redisOutcome)
                /\ uuid_next' = IF outcome.kind = "result"
                                THEN uuid_next + UuidsPerResponse ELSE uuid_next
        /\ UNCHANGED <<providers, redis_client, now, ncalls, provider_ops>>
        /\ UNCHANGED <<breakerVars, auxVars>>

\* get_provider returns in a strategy that waited for it: without a
\* provider the strategy returns None, with one it calls generate and
\* waits for the answer.
ProviderAnswer(c, probe) ==
    LET found == get_provider(probe) # "None"
        rec == [call[c] EXCEPT !.available = @ \/ found,
                               !.provider = get_provider(probe)]
    IN  /\ call[c].pc = "get_provider"
        /\ LoopFree
        /\ provider_ops' = [provider_ops EXCEPT ![c] =
                               @ + Cardinality(providers)
                                 + (IF found THEN 1 ELSE 0)]
        /\ IF found
           THEN /\ call' = [call EXCEPT ![c] = [rec EXCEPT !.pc = "generate"]]
                /\ UNCHANGED <<local_cache, redis, cache_writes, computed,
                               outcomes, active_streams>>
           ELSE settle(c, rec, ReturnedNone, active_streams, UnreadRedisOutcome)
        /\ UNCHANGED <<providers, redis_client, now, ncalls, invoked, uuid_next>>
        /\ UNCHANGED <<breakerVars, auxVars>>

\* The number of generate calls strategy i makes when none raises: guided
\* generation makes three.
generate_calls(i) == IF i = 2 THEN 3 ELSE 1

\* generate returns or raises in a strategy that waited for it.  Guided
\* generation, after the first and the second answer, calls generate again
\* and waits; otherwise the strategy parses what it was answered and
\* returns.
GenerateAnswer(c, gen, redisOutcome) ==
    LET i == call[c].i
        answers == Append(call[c].answers, gen)
        again == gen.kind = "text" /\ Len(answers) < generate_calls(i)
        outcome == IF again THEN ReturnedNone
                   ELSE InvokeStrategy(i, call[c].text,
                                       probe_of(call[c].provider), answers,
                                       uuid_next)
        rec == [call[c] EXCEPT
                   !.rejected = @ \/ (gen.kind = "text" /\ unusable(gen.response)),
                   !.answers = <<>>]
    IN  /\ call[c].pc = "generate"
        /\ LoopFree
        /\ (~redis_client \/ outcome.kind # "result" \/ call[c].request_id # "None")
               => redisOutcome = UnreadRedisOutcome
        /\ provider_ops' = [provider_ops EXCEPT ![c] =
                               @ + (IF again THEN 1 ELSE 0)]
        /\ IF again
           THEN /\ call' = [call EXCEPT ![c].answers = answers]
                /\ UNCHANGED <<local_cache, redis, cache_writes, computed,
                               outcomes, active_streams, uuid_next>>
           ELSE /\ settle(c, rec, outcome, active_streams, redisOutcome)
                /\ uuid_next' = IF outcome.kind = "result"
                                THEN uuid_next + UuidsPerResponse
                                ELSE uuid_next
        /\ UNCHANGED <<providers, redis_client, now, ncalls, invoked>>
        /\ UNCHANGED <<breakerVars, auxVars>>

\* _llm_with_guided_generation and _llm_with_simple_prompt called by
\* themselves on a text.  With no provider configured get_provider answers
\* None without a wait and so does the strategy; otherwise the strategy
\* waits for the providers' checks.
strategy_called(kind, i, text) ==
    IF gather_waits
    THEN [kind |-> kind, i |-> i, pc |-> "get_provider", text |-> text,
          provider |-> "None", gens |-> <<>>, ret |-> NoResult]
    ELSE [kind |-> kind, i |-> i, pc |-> "done", text |-> text,
          provider |-> "None", gens |-> <<>>, ret |-> ReturnedNone]

LlmWithGuidedGeneration ==
    /\ strategyOp.kind = "none"
    /\ \E text \in Texts : strategyOp' = strategy_called("guided", 2, text)
    /\ UNCHANGED exceptStrategy

LlmWithSimplePrompt ==
    /\ strategyOp.kind = "none"
    /\ \E text \in Texts : strategyOp' = strategy_called("simple", 3, text)
    /\ UNCHANGED exceptStrategy

\* get_provider returns in a strategy called by itself: without a provider
\* the strategy returns None, with one it calls generate and waits.
StrategyProviderAnswer(probe) ==
    /\ strategyOp.kind \in {"guided", "simple"}
    /\ strategyOp.pc = "get_provider"
    /\ strategyOp' =
          IF get_provider(probe) = "None"
          THEN [strategyOp EXCEPT !.pc = "done", !.ret = ReturnedNone]
          ELSE [strategyOp EXCEPT !.pc = "generate",
                                  !.provider = get_provider(probe)]
    /\ UNCHANGED exceptStrategy

\* What the strategy returns once its last generate call has answered.
strategy_return(op, gens) ==
    IF op.kind = "guided"
    THEN llm_with_guided_generation(op.text, probe_of(op.provider), gens, 0)
    ELSE llm_with_simple_prompt(op.text, probe_of(op.provider), gens[1], 0)

\* generate returns or raises in a strategy called by itself: guided
\* generation goes on to its next generate call, or the strategy returns.
StrategyGenerateAnswer(gen) ==
    LET gens == Append(strategyOp.gens, gen)
    IN  /\ strategyOp.kind \in {"guided", "simple"}
        /\ strategyOp.pc = "generate"
        /\ strategyOp' =
              IF gen.kind = "text" /\ Len(gens) < generate_calls(strategyOp.i)
              THEN [strategyOp EXCEPT !.gens = gens]
              ELSE [strategyOp EXCEPT !.pc = "done", !.gens = gens,
                                      !.ret = strategy_return(strategyOp, gens)]
        /\ UNCHANGED exceptStrategy

\* emit_detailed_analysis after one of its five asyncio.sleep(0.5): the
\* next thought and the next sleep; after the last sleep the thought
\* 'complete', then lines 118-122, cache.set and the return.
DetailStep(c, redisOutcome) ==
    LET step == call[c].step + 1
        result == call[c].result
        streams == emit_thoughts(active_streams, call[c].request_id,
                                 emitted_by(c, <<detailed_analysis[step]>>))
        rec == [call[c] EXCEPT !.step = step, !.emitted = @ + 1]
    IN  /\ call[c].pc = "detail"
        /\ LoopFree
        /\ (~redis_client \/ step < Len(detailed_analysis))
               => redisOutcome = UnreadRedisOutcome
        /\ active_streams' = streams
        /\ IF step < Len(detailed_analysis)
           THEN /\ call' = [call EXCEPT ![c] = rec]
                /\ UNCHANGED <<local_cache, redis, cache_writes, computed>>
           ELSE /\ local_cache' = cache_set_local(CallKey(c), result)
                /\ redis' = cache_set_redis(CallKey(c), result, redisOutcome)
                /\ cache_writes' = [cache_writes EXCEPT ![c] = Append(@, result)]
                /\ computed' = [computed EXCEPT ![CallKey(c)] =
                                   [present |-> TRUE, result |-> result,
                                    at |-> now, by |-> c]]
                /\ call' = [call EXCEPT ![c] =
                               [rec EXCEPT !.pc = "done", !.ret = result]]
        /\ UNCHANGED <<providers, redis_client, now, uuid_next, invoked,
                       outcomes, provider_ops, ncalls>>
        /\ UNCHANGED <<breakerVars, auxVars>>

\* Lines 139-144: every strategy failed.
MinimalFallback(c, redisOutcome) ==
    LET result == create_minimal_result(uuid_next)
    IN  /\ call[c].pc = "minimal"
        /\ ~redis_client => redisOutcome = UnreadRedisOutcome
        /\ local_cache' = cache_set_local(CallKey(c), result)
        /\ redis' = cache_set_redis(CallKey(c), result, redisOutcome)
        /\ cache_writes' = [cache_writes EXCEPT ![c] = Append(@, result)]
        /\ computed' = [computed EXCEPT ![CallKey(c)] =
                           [present |-> TRUE, result |-> result, at |-> now,
                            by |-> c]]
        /\ uuid_next' = uuid_next + 1
        /\ call' = [call EXCEPT ![c] = [@ EXCEPT !.pc = "done", !.ret = result]]
        /\ UNCHANGED <<providers, redis_client, active_streams, now, invoked,
                       outcomes, provider_ops, ncalls>>
        /\ UNCHANGED <<breakerVars, auxVars>>

\* clear_old_entries: the maintenance pass over the local map, a plain
\* method that runs whenever no call is on the event loop, also while calls
\* wait.
clear_old_entries ==
    /\ \E k \in Keys : local_cache[k].present /\ now - local_cache[k].timestamp >= ttl
    /\ LoopFree
    /\ local_cache' = [k \in Keys |->
                          IF local_cache[k].present
                             /\ now - local_cache[k].timestamp >= ttl
                          THEN NoEntry ELSE local_cache[k]]
    /\ UNCHANGED <<providers, redis_client, redis, active_streams, now, uuid_next,
                   call, invoked, outcomes, provider_ops, cache_writes, ncalls,
                   computed>>
    /\ UNCHANGED <<breakerVars, auxVars>>

ClockStep == ttl_hours \div 2

\* Time passes.
Tick ==
    /\ now + ClockStep <= MaxTime
    /\ NoCallInProgress
    /\ now' = now + ClockStep
    /\ UNCHANGED <<providers, redis_client, local_cache, redis, active_streams,
                   uuid_next, call, invoked, outcomes, provider_ops,
                   cache_writes, ncalls, computed>>
    /\ UNCHANGED <<breakerVars, auxVars>>

(***************************************************************************)
(* utils/resilience.py: CircuitBreaker.  last_failure_time is -1 for None. *)
(* Several callers run the wrapper and interleave where it awaits the      *)
(* wrapped operation.                                                      *)
(***************************************************************************)
Callers == 1..NumCallers

NotCalling == [pc |-> "idle", trial |-> FALSE, duringTrial |-> FALSE]

NoEvent == [kind |-> "none", caller |-> 0, trial |-> FALSE, at |-> 0,
            stateBefore |-> "closed"]

should_attempt_reset_at(breaker, t) ==
    /\ breaker.last_failure_time # -1
    /\ t - breaker.last_failure_time >= breaker.recovery_timeout

\* _should_attempt_reset: a failure is recorded and more than
\* recovery_timeout has passed since it.
should_attempt_reset(breaker, t) ==
    /\ breaker.last_failure_time # -1
    /\ t - breaker.last_failure_time > breaker.recovery_timeout

on_success_keeping_count(breaker) == [breaker EXCEPT !.state = "closed"]

\* _on_success
on_success(breaker) == [breaker EXCEPT !.failure_count = 0, !.state = "closed"]

\* _on_failure
on_failure(breaker, t) ==
    [breaker EXCEPT !.failure_count = @ + 1,
                    !.last_failure_time = t,
                    !.state = IF breaker.failure_count + 1 >= breaker.failure_threshold
                              THEN "open" ELSE @]

TrialInFlight == \E d \in Callers : inflight[d].pc = "running" /\ inflight[d].trial

\* wrapper, up to 'await func(...)': an open breaker either moves to
\* half-open or raises; in every other state the wrapped operation starts.
CbEnter(c) ==
    LET reset == cb.state = "open" /\ should_attempt_reset(cb, cbNow)
        reject == cb.state = "open" /\ ~should_attempt_reset(cb, cbNow)
        event == [kind |-> IF reject THEN "rejected" ELSE "invoked",
                  caller |-> c, trial |-> reset, at |-> cbNow,
                  stateBefore |-> cb.state]
    IN  /\ inflight[c].pc = "idle"
        /\ cbHist.calls < MaxCbCalls
        /\ cb' = IF reset THEN [cb EXCEPT !.state = "half-open"] ELSE cb
        /\ inflight' = [inflight EXCEPT ![c] =
                           IF reject THEN NotCalling
                           ELSE [pc |-> "running", trial |-> reset,
                                 duringTrial |-> cb.state = "half-open"
                                                 /\ TrialInFlight]]
        /\ cbHist' = [cbHist EXCEPT !.last = event, !.calls = @ + 1]
        /\ UNCHANGED cbNow
        /\ UNCHANGED <<analyzerVars, auxVars>>

\* The wrapped operation returns: _on_success, and the result is returned.
CbSucceed(c) ==
    /\ inflight[c].pc = "running"
    /\ cb' = on_success(cb)
    /\ inflight' = [inflight EXCEPT ![c] = NotCalling]
    /\ cbHist' = [cbHist EXCEPT
                     !.consec = 0,
                     !.last = [kind |-> "success", caller |-> c,
                               trial |-> inflight[c].trial, at |-> cbNow,
                               stateBefore |-> cb.state]]
    /\ UNCHANGED cbNow
    /\ UNCHANGED <<analyzerVars, auxVars>>

\* The wrapped operation raises an expected_exception: _on_failure, and the
\* exception is raised again.
CbFail(c) ==
    /\ inflight[c].pc = "running"
    /\ cb' = on_failure(cb, cbNow)
    /\ inflight' = [inflight EXCEPT ![c] = NotCalling]
    /\ cbHist' = [cbHist EXCEPT
                     !.consec = @ + 1,
                     !.lastFailAt = cbNow,
                     !.last = [kind |-> "failure", caller |-> c,
                               trial |-> inflight[c].trial, at |-> cbNow,
                               stateBefore |-> cb.state]]
    /\ UNCHANGED cbNow
    /\ UNCHANGED <<analyzerVars, auxVars>>

\* The wrapped operation ends by an exception outside expected_exception
\* (cancellation is a BaseException): neither handler runs.
CbCancel(c) ==
    /\ inflight[c].pc = "running"
    /\ inflight' = [inflight EXCEPT ![c] = NotCalling]
    /\ cbHist' = [cbHist EXCEPT
                     !.last = [kind |-> "cancel", caller |-> c,
                               trial |-> inflight[c].trial, at |-> cbNow,
                               stateBefore |-> cb.state]]
    /\ UNCHANGED <<cb, cbNow>>
    /\ UNCHANGED <<analyzerVars, auxVars>>

\* A second passes.
CbTick ==
    /\ cbNow < CbMaxTime
    /\ cbNow' = cbNow + 1
    /\ UNCHANGED <<cb, inflight, cbHist>>
    /\ UNCHANGED <<analyzerVars, auxVars>>

(***************************************************************************)
(* llm_factory.py: LLMFactory.execute_concurrent, the race between the     *)
(* selected providers.                                                     *)
(***************************************************************************)
\* The providers _initialize_providers can configure.
FactoryProviders == {"groq", "anthropic", "openai", "ollama"}

\* is_available of the three hosted providers tests the api key, which a
\* configured provider has; Ollama's asks the server.
available_providers(ollama_up) ==
    { p \in providers : p = "ollama" => ollama_up }

\* selected_providers: the requested names that are configured or, with no
\* request, the first TopProviders available ones by priority.
selected_providers(requested, ollama_up) ==
    IF requested # {}
    THEN requested \cap providers
    ELSE LET available == available_providers(ollama_up)
         IN  { p \in available :
                 Cardinality({ q \in available :
                     Priority(q) < Priority(p) })
                     < TopProviders }

\* What provider.generate can do inside try_provider: return a text, return
\* the empty string, or raise; try_provider turns a raise into None.
RaceOutcomes == {"text", "empty", "raise"}

try_provider(outcome) ==
    CASE outcome = "text" -> "text"
      [] outcome = "empty" -> "empty"
      [] OTHER -> "None"

\* 'if result': a non-empty text is the only truthy value of try_provider.
truthy(value) == value = "text"

\* tasks holds what the calls try_provider(...) return: coroutine objects,
\* which as_completed wraps in tasks of its own.
TasksHold == "coroutine"

CoroutineAttributes ==
    {"send", "throw", "close", "cr_await", "cr_code", "cr_frame", "cr_running"}

TaskAttributes == {"done", "cancel", "cancelled", "result", "exception"}

\* Looking up an attribute the object does not have raises AttributeError.
has_attribute(kind, attr) ==
    IF kind = "coroutine" THEN attr \in CoroutineAttributes
    ELSE attr \in TaskAttributes

NoRace == [pc |-> "idle"]

\* execute_concurrent from the selection on, up to its first await on
\* as_completed: None is returned when nothing was selected, otherwise
\* every selected provider's try_provider is started.
race_started(selected) ==
    [pc |-> IF selected = {} THEN "returned" ELSE "running",
     tasks |-> selected,
     status |-> [p \in selected |-> "running"],
     completed |-> <<>>, pending |-> Cardinality(selected),
     winner |-> "None", result |-> "None", exception |-> "none"]

\* execute_concurrent is called.  With names requested the configured ones
\* of them are selected at once.  Without, the call awaits
\* get_available_providers, which waits for the checks of the configured
\* providers unless there is none.
ExecuteConcurrent(requested) ==
    /\ race.pc = "idle"
    /\ race' = IF requested = {} /\ providers # {}
               THEN [race_started({}) EXCEPT !.pc = "get_available_providers"]
               ELSE race_started(selected_providers(requested, TRUE))
    /\ UNCHANGED exceptRace

\* The checks have answered: get_available_providers returns to
\* execute_concurrent, which selects the first TopProviders and goes on.
RaceProvidersAnswer(ollama_up) ==
    /\ race.pc = "get_available_providers"
    /\ "ollama" \notin providers => ollama_up
    /\ race' = race_started(selected_providers({}, ollama_up))
    /\ UNCHANGED exceptRace

\* try_provider of one provider comes to its end.  It runs on whether or not
\* execute_concurrent is still waiting, unless it was cancelled.
TryProviderEnds(p, outcome) ==
    /\ race.pc # "idle"
    /\ p \in race.tasks
    /\ race.status[p] = "running"
    /\ race' = [race EXCEPT
                   !.status[p] = try_provider(outcome),
                   !.completed = IF race.pc = "running"
                                 THEN Append(@, p) ELSE @]
    /\ UNCHANGED exceptRace

\* The loop that cancels the others: the first 'task.done()' is looked up on
\* the first element of tasks.
cancel_remaining(r) ==
    IF has_attribute(TasksHold, "done") /\ has_attribute(TasksHold, "cancel")
    THEN [r EXCEPT !.status = [p \in r.tasks |->
                                  IF r.status[p] = "running"
                                  THEN "cancelled" ELSE r.status[p]]]
    ELSE [r EXCEPT !.exception = "AttributeError"]

\* 'result = await completed' hands over the next finished try_provider, in
\* the order of finishing; the body of the loop and, after the last one, the
\* final return follow.
NextCompleted ==
    /\ race.pc = "running"
    /\ race.completed # <<>>
    /\ LET p == Head(race.completed)
           taken == [race EXCEPT !.completed = Tail(@),
                                 !.pending = @ - 1]
       IN  IF truthy(race.status[p])
           THEN LET after == cancel_remaining([taken EXCEPT !.winner = p])
                IN  race' = IF after.exception # "none"
                            THEN [after EXCEPT !.pc = "raised"]
                            ELSE [after EXCEPT !.pc = "returned",
                                               !.result = p]
           ELSE race' = IF taken.pending = 0
                        THEN [taken EXCEPT !.pc = "returned"]
                        ELSE taken
    /\ UNCHANGED exceptRace


(***************************************************************************)
(* intent_analyzer.py: the operations of IntentAnalyzer on a task list.    *)
(* A task is what these operations read of it: its id, the list of its     *)
(* dependencies, its estimate (0 for None), whether it has acceptance      *)
(* criteria, and its type.                                                 *)
(***************************************************************************)
\* The validator of TaskBreakdown.tasks: at least one task is required.
breakdown_accepted(tasks) == Len(tasks) > 0

ListedTask(id, dependencies) ==
    [id |-> id, dependencies |-> dependencies, estimated_hours |-> 800,
     has_criteria |-> TRUE, type |-> "backend"]

\* The ids a dependency can name: those of the tasks and one more.
ListedIds == 1..(MaxListed + 1)

\* Dependency lists: up to MaxDeps ids, none twice.
DepLists ==
    UNION { { d \in [1..n -> ListedIds] :
                \A i, j \in 1..n : i # j => d[i] # d[j] } : n \in 0..MaxDeps }

\* Task lists with unique ids.  The operations compare ids only for
\* equality, so the k-th task is given the id k.
TaskList(n, deps) == [k \in 1..n |-> ListedTask(k, deps[k])]

\* '{task.id: task for task in tasks}': the keys, and under a key the last
\* task of that id.
task_map_keys(tasks) == { tasks[k].id : k \in 1..Len(tasks) }

task_map_get(tasks, id) ==
    tasks[CHOOSE k \in 1..Len(tasks) :
             /\ tasks[k].id = id
             /\ \A j \in 1..Len(tasks) : tasks[j].id = id => j <= k]

\* F applied to the value of v, which is worked out once.
Bind(v, F(_)) == CHOOSE y \in { F(x) : x \in {v} } : TRUE

on_stack_visited(st, dep_id) == TRUE

\* 'elif dep_id in rec_stack'
on_stack(st, dep_id) == dep_id \in st.rec_stack

RECURSIVE has_cycle(_, _, _)
RECURSIVE has_cycle_deps(_, _, _, _)

\* The loop over task.dependencies inside has_cycle, from the k-th on.
has_cycle_deps(tasks, deps, k, st) ==
    IF k > Len(deps) THEN [st EXCEPT !.ret = FALSE]
    ELSE IF deps[k] \notin st.visited
    THEN Bind(has_cycle(tasks, deps[k], st),
              LAMBDA r : IF r.ret THEN r
                         ELSE has_cycle_deps(tasks, deps, k + 1, r))
    ELSE IF on_stack(st, deps[k]) THEN [st EXCEPT !.ret = TRUE]
    ELSE has_cycle_deps(tasks, deps, k + 1, st)

\* has_cycle(task_id) with the sets visited and rec_stack it shares.
has_cycle(tasks, task_id, st) ==
    Bind([st EXCEPT !.visited = @ \cup {task_id},
                    !.rec_stack = @ \cup {task_id}],
         LAMBDA entered :
            Bind(IF task_id \in task_map_keys(tasks)
                 THEN has_cycle_deps(tasks,
                          task_map_get(tasks, task_id).dependencies, 1, entered)
                 ELSE [entered EXCEPT !.ret = FALSE],
                 LAMBDA r : IF r.ret THEN r
                            ELSE [r EXCEPT !.rec_stack = @ \ {task_id}]))

RECURSIVE has_circular_from(_, _, _)

\* 'for task in tasks: if task.id not in visited: if has_cycle(task.id)'
has_circular_from(tasks, k, st) ==
    IF k > Len(tasks) THEN FALSE
    ELSE IF tasks[k].id \in st.visited
    THEN has_circular_from(tasks, k + 1, st)
    ELSE Bind(has_cycle(tasks, tasks[k].id, st),
              LAMBDA r : IF r.ret THEN TRUE
                         ELSE has_circular_from(tasks, k + 1, r))

\* IntentAnalyzer._has_circular_dependencies
has_circular_dependencies(tasks) ==
    has_circular_from(tasks, 1,
                      [visited |-> {}, rec_stack |-> {}, ret |-> FALSE])

dep_followed_never(tasks, dep_id) == FALSE

\* 'if dep_id in task_map'
dep_followed(tasks, dep_id) == dep_id \in task_map_keys(tasks)

RECURSIVE visit(_, _, _)
RECURSIVE visit_deps(_, _, _, _)

\* The loop over task.dependencies inside visit, from the k-th on.
visit_deps(tasks, deps, k, st) ==
    IF k > Len(deps) THEN st
    ELSE Bind(IF dep_followed(tasks, deps[k])
              THEN visit(tasks, deps[k], st) ELSE st,
              LAMBDA after : visit_deps(tasks, deps, k + 1, after))

\* visit(task_id) with the set visited and the list result it shares.
visit(tasks, task_id, st) ==
    IF task_id \in st.visited THEN st
    ELSE Bind([st EXCEPT !.visited = @ \cup {task_id}],
              LAMBDA entered :
                 IF task_id \in task_map_keys(tasks)
                 THEN Bind(visit_deps(tasks,
                               task_map_get(tasks, task_id).dependencies,
                               1, entered),
                           LAMBDA after :
                              [after EXCEPT !.result =
                                  Append(@, task_map_get(tasks, task_id))])
                 ELSE entered)

RECURSIVE visit_from(_, _, _)

\* 'for task in tasks: visit(task.id)'
visit_from(tasks, k, st) ==
    IF k > Len(tasks) THEN st
    ELSE Bind(visit(tasks, tasks[k].id, st),
              LAMBDA after : visit_from(tasks, k + 1, after))

\* IntentAnalyzer._optimize_task_order
optimize_task_order(tasks) ==
    visit_from(tasks, 1, [visited |-> {}, result |-> <<>>]).result

\* ValidationResult.add_issue and add_suggestion.
add_issue(result, issue) ==
    [result EXCEPT !.issues = Append(@, issue), !.is_valid = FALSE]

add_suggestion_invalidating(result, suggestion) ==
    [result EXCEPT !.suggestions = Append(@, suggestion), !.is_valid = FALSE]

add_suggestion(result, suggestion) ==
    [result EXCEPT !.suggestions = Append(@, suggestion)]

\* IntentAnalyzer._has_inconsistent_types: more than half of the types
\* that occur occur once.
has_inconsistent_types(tasks) ==
    LET types == { tasks[k].type : k \in 1..Len(tasks) }
        count(t) == Cardinality({ k \in 1..Len(tasks) : tasks[k].type = t })
        single_task_types == Cardinality({ t \in types : count(t) = 1 })
    IN  2 * single_task_types > Cardinality(types)

RECURSIVE orphaned_issues(_, _, _, _)

\* The two nested loops that look for dependencies on ids no task has;
\* from the d-th dependency of the k-th task on.
orphaned_issues(tasks, k, d, result) ==
    IF k > Len(tasks) THEN result
    ELSE IF d > Len(tasks[k].dependencies)
    THEN orphaned_issues(tasks, k + 1, 1, result)
    ELSE orphaned_issues(tasks, k, d + 1,
             IF tasks[k].dependencies[d] \notin task_map_keys(tasks)
             THEN add_issue(result, [issue |-> "non-existent",
                                     task |-> tasks[k].id,
                                     dep |-> tasks[k].dependencies[d]])
             ELSE result)

RECURSIVE estimate_suggestions(_, _, _)

estimate_suggestions(tasks, k, result) ==
    IF k > Len(tasks) THEN result
    ELSE estimate_suggestions(tasks, k + 1,
             IF tasks[k].estimated_hours # 0
                /\ tasks[k].estimated_hours > HighEstimate * 100
             THEN add_suggestion(result, [suggestion |-> "high estimate",
                                          task |-> tasks[k].id])
             ELSE result)

RECURSIVE criteria_suggestions(_, _, _)

criteria_suggestions(tasks, k, result) ==
    IF k > Len(tasks) THEN result
    ELSE criteria_suggestions(tasks, k + 1,
             IF ~tasks[k].has_criteria
             THEN add_suggestion(result, [suggestion |-> "acceptance criteria",
                                          task |-> tasks[k].id])
             ELSE result)

\* IntentAnalyzer.validate_tasks; tasks is the list after the call, which
\* no statement of it assigns to.
ia_validate_tasks(tasks) ==
    LET start == [is_valid |-> TRUE, issues |-> <<>>, suggestions |-> <<>>]
        circular == IF has_circular_dependencies(tasks)
                    THEN add_issue(start, [issue |-> "circular"])
                    ELSE start
        orphaned == orphaned_issues(tasks, 1, 1, circular)
        estimates == estimate_suggestions(tasks, 1, orphaned)
        criteria == criteria_suggestions(tasks, 1, estimates)
        types == IF has_inconsistent_types(tasks)
                 THEN add_suggestion(criteria, [suggestion |-> "grouping"])
                 ELSE criteria
    IN  [is_valid |-> types.is_valid, issues |-> types.issues,
         suggestions |-> types.suggestions, tasks |-> tasks]

\* The breakdown whose last task has a high estimate, no acceptance
\* criteria or a type of its own.
with_attributes(tasks, high, lacking, mixed) ==
    IF tasks = <<>> THEN tasks
    ELSE [tasks EXCEPT ![Len(tasks)] =
             [@ EXCEPT !.estimated_hours = IF high THEN 5000 ELSE @,
                       !.has_criteria = ~lacking,
                       !.type = IF mixed THEN "frontend" ELSE @]]

\* One call of each operation on a new analyzer, with the task list it is
\* given.
HasCircularDependencies ==
    /\ intentOp.kind = "none"
    /\ \E n \in 0..MaxListed : \E deps \in [1..n -> DepLists] :
          LET tasks == TaskList(n, deps)
          IN  intentOp' = [kind |-> "has_circular", tasks |-> tasks,
                           ret |-> has_circular_dependencies(tasks)]
    /\ UNCHANGED exceptIntent

OptimizeTaskOrder ==
    /\ intentOp.kind = "none"
    /\ \E n \in 0..MaxListed : \E deps \in [1..n -> DepLists] :
          LET tasks == TaskList(n, deps)
          IN  intentOp' = [kind |-> "optimize", tasks |-> tasks,
                           ret |-> optimize_task_order(tasks)]
    /\ UNCHANGED exceptIntent

\* validate_tasks of a TaskBreakdown, which has at least one task.
IaValidateTasks ==
    /\ intentOp.kind = "none"
    /\ \E n \in 0..MaxListed : \E deps \in [1..n -> DepLists] :
          \E high \in BOOLEAN, lacking \in BOOLEAN, mixed \in BOOLEAN :
             LET given == with_attributes(TaskList(n, deps), high, lacking,
                                          mixed)
             IN  /\ breakdown_accepted(given)
                 /\ intentOp' = [kind |-> "validate", tasks |-> given,
                                 ret |-> ia_validate_tasks(given)]
    /\ UNCHANGED exceptIntent

(***************************************************************************)
(* llm_factory.py: LLMFactory.get_provider with a preferred provider.      *)
(***************************************************************************)
\* The names a caller can prefer: a provider, one that no factory has, or
\* none at all.
PreferredNames == FactoryProviders \cup {"mistral", "None"}

fast_enough_any(p) == TRUE

\* 'provider.priority < 50': only a fast provider is taken on preference.
fast_enough(p) == Priority(p) < FastThreshold

\* 'if preferred and preferred in self.providers', then the priority; only
\* then is is_available() of the preferred provider awaited.
preferred_considered(preferred) ==
    /\ preferred # "None"
    /\ preferred \in providers
    /\ fast_enough(preferred)

\* get_provider(preferred): first is what is_available() of the preferred
\* provider does if it is awaited, probe what the providers answer to
\* get_available_providers.
get_provider_preferred(preferred, first, probe) ==
    IF preferred_considered(preferred) /\ first = "raise"
    THEN [kind |-> "raised", ret |-> "None"]
    ELSE IF preferred_considered(preferred) /\ first = "true"
    THEN [kind |-> "returned", ret |-> preferred]
    ELSE [kind |-> "returned", ret |-> get_provider(probe)]

\* get_provider(preferred) is called.  It ends at once when the preferred
\* provider is taken or its check raises, and when no provider is
\* configured, for which get_available_providers does not wait; otherwise
\* it waits for the checks of the configured providers.
GetProvider(preferred, first) ==
    LET considered == preferred_considered(preferred)
        gathered == ~(considered /\ first \in {"true", "raise"})
        got == get_provider_preferred(preferred, first, UnreadProbe)
    IN  /\ selection.kind # "get_available_providers"
        /\ IF considered THEN first \in ProbeOutcomes(preferred)
                         ELSE first = "true"
        /\ selection' = [kind |-> IF gathered /\ gather_waits
                                  THEN "get_available_providers"
                                  ELSE got.kind,
                         ret |-> IF gathered THEN "None" ELSE got.ret,
                         preferred |-> preferred,
                         first |-> IF considered THEN first ELSE "unasked",
                         gathered |-> gathered, probe |-> UnreadProbe]
        /\ UNCHANGED <<providers, exceptSelection>>

\* The checks have answered: get_available_providers returns to
\* get_provider, which returns the first by priority, or None.
SelectionProvidersAnswer(probe) ==
    LET got == get_provider_preferred(selection.preferred, selection.first,
                                      probe)
    IN  /\ selection.kind = "get_available_providers"
        /\ selection' = [selection EXCEPT !.kind = got.kind,
                                          !.ret = got.ret,
                                          !.probe = probe]
        /\ UNCHANGED <<providers, exceptSelection>>

(***************************************************************************)
(* main.py: the endpoint /api/v1/validate-tasks, and validate_tasks of the *)
(* analyzer that lifespan constructs.                                      *)
(***************************************************************************)
NoValidation == [kind |-> "none"]

NoSelection == [kind |-> "none"]

NoStrategyOp == [kind |-> "none"]

NoIntentOp == [kind |-> "none"]

\* The bodies the endpoint can be sent: up to MaxTasks tasks, each with an
\* id and the ids it depends on.
Breakdowns ==
    UNION { [1..n -> { Task(i, deps, 800) :
                         i \in 1..MaxTaskId, deps \in SUBSET (1..MaxTaskId) }] :
            n \in 0..MaxTasks }

\* RobustIntentAnalyzer.validate_tasks: the breakdown is not looked at.
validate_tasks(task_breakdown) ==
    [is_valid |-> TRUE, issues |-> <<>>, suggestions |-> <<>>]

\* The endpoint: a body the model rejects is answered 422 before the
\* handler runs; otherwise the handler returns what validate_tasks found.
ValidateTasks(tasks) ==
    /\ validation' =
           IF ~breakdown_accepted(tasks)
           THEN [kind |-> "rejected", tasks |-> tasks, status_code |-> 422]
           ELSE LET validation_result == validate_tasks(tasks)
                IN  [kind |-> "validated", tasks |-> tasks,
                     status_code |-> 200,
                     valid |-> validation_result.is_valid,
                     issues |-> validation_result.issues,
                     suggestions |-> validation_result.suggestions]
    /\ UNCHANGED exceptValidate

(***************************************************************************)
(* Python floats (IEEE 754 binary64, round to nearest, ties to even) as    *)
(* used by RateLimiter.  A float is held as a fixed-point number: a        *)
(* sequence of limbs, least significant first, each in 0..Base - 1, of     *)
(* which the first FracLimbs are the fraction.  Every float the limiter    *)
(* computes from the inputs drawn here is in 2^-17 .. Base and so has all  *)
(* its 53 significant bits inside the limbs.                               *)
(***************************************************************************)
Base == 2 ^ LimbBits

Zeros(n) == [i \in 1..n |-> 0]

\* The float of the integer n.
to_float(n) == Zeros(FracLimbs) \o <<n>>

Limb(x, i) == IF i <= Len(x) THEN x[i] ELSE 0

\* x + y in exact arithmetic, on the limbs of x.
RECURSIVE add_limbs(_, _, _, _)
add_limbs(x, y, i, carry) ==
    IF i > Len(x) THEN <<>>
    ELSE LET s == x[i] + Limb(y, i) + carry
         IN  <<s % Base>> \o add_limbs(x, y, i + 1, s \div Base)

\* x - y in exact arithmetic, for x >= y.
RECURSIVE sub_limbs(_, _, _, _)
sub_limbs(x, y, i, borrow) ==
    IF i > Len(x) THEN <<>>
    ELSE LET d == x[i] - Limb(y, i) - borrow
         IN  <<d % Base>> \o sub_limbs(x, y, i + 1, IF d < 0 THEN 1 ELSE 0)

\* x < y, for two numbers of the same length.
less(x, y) ==
    \E i \in 1..Len(x) :
        /\ x[i] < y[i]
        /\ \A j \in (i + 1)..Len(x) : x[j] = y[j]

\* x * d in exact arithmetic for one limb d, one limb longer than x.
RECURSIVE mul_limb(_, _, _, _)
mul_limb(x, d, i, carry) ==
    IF i > Len(x) THEN <<carry>>
    ELSE LET p == x[i] * d + carry
         IN  <<p % Base>> \o mul_limb(x, d, i + 1, p \div Base)

\* x * y in exact arithmetic: Len(x) + Len(y) limbs, twice the fraction.
RECURSIVE mul_limbs(_, _, _, _)
mul_limbs(x, y, i, acc) ==
    IF i > Len(x) THEN acc
    ELSE mul_limbs(x, y, i + 1,
            IF x[i] = 0 THEN acc
            ELSE add_limbs(acc, Zeros(i - 1) \o mul_limb(y, x[i], 1, 0), 1, 0))

\* x / d for an integer d in 1..Base: the quotient and whether a remainder
\* is left.
RECURSIVE div_limbs(_, _, _, _)
div_limbs(x, d, i, rem) ==
    IF i = 0 THEN [quotient |-> <<>>, inexact |-> rem # 0]
    ELSE LET cur == rem * Base + x[i]
             rest == div_limbs(x, d, i - 1, cur % d)
         IN  [rest EXCEPT !.quotient = Append(rest.quotient, cur \div d)]

\* The position of the leading one of x # 0.
top_bit(x) ==
    LET top == CHOOSE i \in 1..Len(x) :
                   x[i] # 0 /\ \A j \in (i + 1)..Len(x) : x[j] = 0
        b == CHOOSE k \in 0..(LimbBits - 1) :
                   2 ^ k <= x[top] /\ x[top] < 2 ^ (k + 1)
    IN  (top - 1) * LimbBits + b

\* The float nearest to x (to x plus a little, when inexact): 53
\* significant bits are kept, a tie goes to the even neighbour.
round_to_float(x, inexact) ==
    IF \A i \in 1..Len(x) : x[i] = 0 THEN x
    ELSE LET dropped == top_bit(x) - (Mantissa - 1)
         IN  IF dropped <= 0 THEN x
             ELSE LET limb == dropped \div LimbBits + 1
                      unit == 2 ^ (dropped % LimbBits)
                      kept == [i \in 1..Len(x) |->
                                 IF i < limb THEN 0
                                 ELSE IF i = limb THEN x[i] - (x[i] % unit)
                                 ELSE x[i]]
                      halfLimb == (dropped - 1) \div LimbBits + 1
                      halfUnit == 2 ^ ((dropped - 1) % LimbBits)
                      half == (x[halfLimb] \div halfUnit) % 2 = 1
                      below == \/ x[halfLimb] % halfUnit # 0
                               \/ \E i \in 1..(halfLimb - 1) : x[i] # 0
                      odd == (x[limb] \div unit) % 2 = 1
                  IN  IF half /\ (below \/ inexact \/ odd)
                      THEN add_limbs(kept,
                               [i \in 1..Len(x) |-> IF i = limb THEN unit ELSE 0],
                               1, 0)
                      ELSE kept

\* x + y, x - y (for x >= y) and x * y of two floats, as Python computes them.
float_add(x, y) == round_to_float(add_limbs(x, y, 1, 0), FALSE)

float_sub(x, y) == round_to_float(sub_limbs(x, y, 1, 0), FALSE)

float_mul(x, y) ==
    LET product == round_to_float(
                       mul_limbs(x, y, 1, Zeros(Len(x) + Len(y))), FALSE)
    IN  SubSeq(product, FracLimbs + 1, 2 * FracLimbs + 1)

\* n / d of two integers, d in 1..Base, as Python's true division.
true_divide(n, d) ==
    LET q == div_limbs(to_float(n), d, FracLimbs + 1, 0)
    IN  round_to_float(q.quotient, q.inexact)

(***************************************************************************)
(* utils/resilience.py: RateLimiter, rate_limit and timeout_wrapper, and   *)
(* main.py: process_intent.  The loop's clock advances in ticks, of which  *)
(* TicksPerSecond make a second; what loop.time() returns is the float of  *)
(* the seconds.                                                            *)
(***************************************************************************)
\* asyncio.get_event_loop().time() at tick ticks.
loop_time(ticks) == true_divide(ticks, TicksPerSecond)

\* RateLimiter.__init__ at time 0: a full bucket.
RateLimiter(rate, per) ==
    [rate |-> rate, per |-> per, allowance |-> to_float(rate),
     last_check |-> loop_time(0)]

\* time_passed * (self.rate / self.per) of an acquire at time t.
refill(lim, t) ==
    float_mul(float_sub(t, lim.last_check), true_divide(lim.rate, lim.per))

refilled_uncapped(lim, t) ==
    float_add(lim.allowance, refill(lim, t))

\* The bucket after the refill of an acquire at time t, capped at rate.
refilled(lim, t) ==
    LET allowance == float_add(lim.allowance, refill(lim, t))
    IN  IF less(to_float(lim.rate), allowance) THEN to_float(lim.rate)
        ELSE allowance

\* RateLimiter.acquire at time t: what it returns, and the limiter after
\* the call.
acquire(lim, t) ==
    LET allowance == refilled(lim, t)
    IN  IF less(allowance, to_float(1))
        THEN [returned |-> FALSE,
              limiter |-> [lim EXCEPT !.last_check = t,
                                      !.allowance = allowance]]
        ELSE [returned |-> TRUE,
              limiter |-> [lim EXCEPT !.last_check = t,
                                      !.allowance =
                                          float_sub(allowance, to_float(1))]]

\* RateLimiter.acquire returns True.
acquire_granted(lim, t) == acquire(lim, t).returned

\* limiter.acquire() as the wrapper of rate_limit calls it.  The call is
\* recorded with the time it read, its answer, the allowance after the refill
\* and the cap (refilled), and the fields of the limiter that it found
\* (last_check, before) and left (after).
Acquire ==
    LET current == loop_time(lmNow)
        answer == acquire(limiter, current)
    IN  /\ Len(acquires) < MaxAcquires
        /\ limiter' = answer.limiter
        /\ acquires' = Append(acquires,
               [at |-> current, granted |-> answer.returned,
                refilled |-> refilled(limiter, current),
                last_check |-> limiter.last_check,
                before |-> limiter.allowance,
                after |-> answer.limiter.allowance])

\* isinstance(exc, handler class) for the two except clauses of the outer
\* try: HTTPException derives from Exception and not from ValueError.
handled_by(handler, exc) ==
    IF handler = "ValueError" THEN exc = "ValueError"
    ELSE exc \in {"ValueError", "HTTPException", "TimeoutError", "Exception"}

\* What a request is answered: request is the number of its acquire.
HttpResponse(outcome, status_code, detail, request) ==
    [outcome |-> outcome, status_code |-> status_code, detail |-> detail,
     request |-> request]

NoResponse == HttpResponse("none", 0, "", 0)

\* process_intent after timeout_wrapper: the inner try turns a TimeoutError
\* into HTTPException(504), which is raised inside the outer try and meets
\* its except clauses in their order.
process_intent(outcome, request) ==
    LET raised == IF outcome = "TimeoutError" THEN "HTTPException" ELSE outcome
    IN  IF outcome = "result" THEN HttpResponse(outcome, 200, "", request)
        ELSE IF handled_by("ValueError", raised)
             THEN HttpResponse(outcome, 400, "validation", request)
        ELSE IF handled_by("Exception", raised)
             THEN HttpResponse(outcome, 500, "Failed to process intent", request)
        ELSE HttpResponse(outcome, 504, "Processing timeout", request)

\* timeout=60.0 of process_intent, in seconds.
ProcessingTimeout == 60

\* The slots of the requests whose analyze_intent is in flight: a granted
\* request takes the first free one.  With one slot a request that arrives
\* while another waits is followed when it is refused; two bodies that
\* overlap are followed by the analyzer's own specification.
Slots == {1}

FreeSlot ==
    CHOOSE c \in Slots :
        call[c].pc = "idle" /\ \A j \in Slots : call[j].pc = "idle" => c <= j

\* What a step of a request leaves alone.
exceptRequest == <<breakerVars, streamVars, retryVars, raceVars, cacheVars,
                   validateVars, selectionVars, intentVars, thoughtVars,
                   strategyVars>>

\* The text of a request that is refused before its body is read.
UnreadText == [words |-> {"fix", "crash"}, phrases |-> 0]

\* One request to POST /api/v1/process-intent arrives: the rate_limit
\* wrapper calls acquire.  A refused acquire raises outside process_intent,
\* and global_exception_handler answers.  After a granted one process_intent
\* hands analyze_intent to asyncio.wait_for, which makes a task of it and
\* waits.
ProcessIntent(text, context, request_id) ==
    LET granted == acquire_granted(limiter, loop_time(lmNow))
        request == Len(acquires) + 1
    IN  /\ LoopFree
        /\ Acquire
        /\ granted => \E c \in Slots : call[c].pc = "idle"
        /\ ~granted => text = UnreadText
        /\ IF granted
           THEN /\ call' = [call EXCEPT ![FreeSlot] =
                               [Idle EXCEPT !.pc = "admitted", !.text = text,
                                            !.context = context,
                                            !.request_id = request_id,
                                            !.acquire = request,
                                            !.entered = lmNow]]
                /\ UNCHANGED http_response
           ELSE /\ http_response' =
                       HttpResponse("rate_limited", 500,
                                    "An unexpected error occurred", request)
                /\ UNCHANGED call
        /\ UNCHANGED <<providers, redis_client, local_cache, redis,
                       active_streams, now, uuid_next, invoked, outcomes,
                       provider_ops, cache_writes, ncalls, computed, lmNow>>
        /\ UNCHANGED exceptRequest

\* The task of a request starts: analyze_intent runs to its first wait.
RunBody(c, redisOutcome) ==
    /\ call[c].pc = "admitted"
    /\ analyze_start(c, call[c].text, call[c].context, call[c].request_id,
                     redisOutcome)

\* The deadline of the request of a call has not passed.
WithinDeadline(c) ==
    lmNow - call[c].entered < ProcessingTimeout * TicksPerSecond

\* A call that waits for its providers, for generate or in a sleep.
Waiting(c) == call[c].pc \in {"get_provider", "generate", "detail"}

\* The slot of a call that has ended.
freed(f, c, value) == [f EXCEPT ![c] = value]

\* The deadline passes while analyze_intent waits: wait_for cancels the
\* task, the CancelledError leaves analyze_intent where it waits, and
\* timeout_wrapper raises TimeoutError into process_intent.
Timeout(c) ==
    /\ Waiting(c)
    /\ ~WithinDeadline(c)
    /\ LoopFree
    /\ http_response' = process_intent("TimeoutError", call[c].acquire)
    /\ call' = freed(call, c, Idle)
    /\ invoked' = freed(invoked, c, <<>>)
    /\ outcomes' = freed(outcomes, c, <<>>)
    /\ provider_ops' = freed(provider_ops, c, 0)
    /\ cache_writes' = freed(cache_writes, c, <<>>)
    /\ UNCHANGED <<providers, redis_client, local_cache, redis, active_streams,
                   now, uuid_next, ncalls, computed, limiter, lmNow, acquires>>
    /\ UNCHANGED exceptRequest

\* analyze_intent has ended and process_intent goes on after
\* timeout_wrapper: the answer of the request.
Respond(c) ==
    /\ call[c].pc = "done"
    /\ LoopFree
    /\ http_response' =
           process_intent(IF call[c].raised THEN "Exception" ELSE "result",
                          call[c].acquire)
    /\ call' = freed(call, c, Idle)
    /\ invoked' = freed(invoked, c, <<>>)
    /\ outcomes' = freed(outcomes, c, <<>>)
    /\ provider_ops' = freed(provider_ops, c, 0)
    /\ cache_writes' = freed(cache_writes, c, <<>>)
    /\ UNCHANGED <<providers, redis_client, local_cache, redis, active_streams,
                   now, uuid_next, ncalls, computed, limiter, lmNow, acquires>>
    /\ UNCHANGED exceptRequest

\* The loop's clock goes on by a second, or by the time of the deadline
\* while a call waits; a call whose deadline has passed is cancelled before
\* the clock goes on.
LmTick(seconds) ==
    /\ \A c \in Slots : Waiting(c) => WithinDeadline(c)
    /\ LoopFree
    /\ IF seconds = 1
       THEN (lmNow \div TicksPerSecond) % ProcessingTimeout < MaxLmTime
       ELSE /\ seconds = ProcessingTimeout
            /\ lmNow < ProcessingTimeout * TicksPerSecond
            /\ \E c \in Slots : Waiting(c)
    /\ lmNow' = lmNow + seconds * TicksPerSecond
    /\ UNCHANGED <<limiter, acquires, http_response>>
    /\ UNCHANGED exceptEndpoint

\* limiter.acquire() on its own, with no process_intent behind it.
LimiterAcquire ==
    /\ Acquire
    /\ UNCHANGED <<lmNow, http_response>>
    /\ UNCHANGED exceptEndpoint

\* The loop's clock moves on by one tick.
LoopTick ==
    /\ lmNow < MaxTicks
    /\ lmNow' = lmNow + 1
    /\ UNCHANGED <<limiter, acquires, http_response>>
    /\ UNCHANGED exceptEndpoint

(***************************************************************************)
(* retry_with_backoff: the decorator of utils/resilience.py and the one of *)
(* services/llm_factory.py, around an operation that is invoked, and then  *)
(* returns or raises.  An exception carries the number of the invocation   *)
(* that raised it and whether the failure is permanent (authentication or  *)
(* configuration) or transient.  Delays are in units of the base delay.    *)
(***************************************************************************)
Decorators == {"resilience", "llm_factory"}

NoException == [id |-> 0, permanent |-> FALSE]

\* The wrapper of a decorated operation, not called yet.
Wrapper(decorator, retries, exponential) ==
    [decorator |-> decorator, retries |-> retries, exponential |-> exponential,
     pc |-> "idle", count |-> 0, delay |-> 1, invocations |-> 0,
     sleeps |-> <<>>, last_exception |-> NoException, raised |-> NoException,
     permanent_at |-> 0]

\* The wrapper is called.  resilience: 'while retry_count < retries' is not
\* entered for retries = 0 and the wrapper returns None.  llm_factory:
\* 'for attempt in range(max_retries)' is empty for max_retries = 0 and
\* 'raise last_exception' raises None, a TypeError.
RetryCall ==
    /\ retry.pc = "idle"
    /\ retry' =
         IF retry.retries > 0
         THEN [retry EXCEPT !.pc = "calling", !.invocations = 1]
         ELSE IF retry.decorator = "resilience"
              THEN [retry EXCEPT !.pc = "returned"]
              ELSE [retry EXCEPT !.pc = "type_error"]
    /\ UNCHANGED exceptRetry

\* 'return await func(*args, **kwargs)' returns.
RetrySucceed ==
    /\ retry.pc = "calling"
    /\ retry' = [retry EXCEPT !.pc = "returned"]
    /\ UNCHANGED exceptRetry

\* The failure just caught is the last one: resilience raises when
\* retry_count, just incremented, reaches retries; llm_factory leaves the
\* loop after attempt max_retries - 1.
gives_up(w) == w.count + 1 >= w.retries

next_delay_constant(w) == w.delay

\* The delay of the next sleep: resilience doubles its delay after each
\* sleep when exponential; llm_factory sleeps base_delay * 2 ** attempt.
next_delay(w) ==
    IF w.decorator = "resilience" /\ ~w.exponential THEN w.delay
    ELSE 2 * w.delay

\* func raises: the except clause of the wrapper.
RetryFail(permanent) ==
    LET exc == [id |-> retry.invocations, permanent |-> permanent]
        seen == [retry EXCEPT
                    !.count = @ + 1,
                    !.last_exception = exc,
                    !.permanent_at = IF @ = 0 /\ permanent
                                     THEN retry.invocations ELSE @]
    IN  /\ retry.pc = "calling"
        /\ retry' = IF gives_up(retry)
                    THEN [seen EXCEPT !.pc = "raised", !.raised = exc]
                    ELSE [seen EXCEPT !.pc = "sleeping",
                                      !.sleeps = Append(@, retry.delay),
                                      !.delay = next_delay(retry)]
        /\ UNCHANGED exceptRetry

\* asyncio.sleep(delay) is over: the loop comes round and func is invoked.
RetryWake ==
    /\ retry.pc = "sleeping"
    /\ retry' = [retry EXCEPT !.pc = "calling", !.invocations = @ + 1]
    /\ UNCHANGED exceptRetry

(***************************************************************************)
(* Specifications.                                                         *)
(***************************************************************************)
\* The analyzer after construction: the environment decides which providers
\* are configured and whether a shared store is connected.
AnalyzerConstructed ==
    /\ local_cache = [k \in Keys |-> NoEntry]
    /\ redis = [k \in Keys |-> NoEntry]
    /\ active_streams = [r \in RequestIds |-> NoStream]
    /\ now = 0
    /\ uuid_next = 0
    /\ call = [c \in Calls |-> Idle]
    /\ invoked = [c \in Calls |-> <<>>]
    /\ outcomes = [c \in Calls |-> <<>>]
    /\ provider_ops = [c \in Calls |-> 0]
    /\ cache_writes = [c \in Calls |-> <<>>]
    /\ ncalls = 0
    /\ computed = [k \in Keys |-> NoEntry]

\* CircuitBreaker.__init__
CircuitBreaker(failure_threshold, recovery_timeout) ==
    [failure_threshold |-> failure_threshold,
     recovery_timeout |-> recovery_timeout,
     failure_count |-> 0, last_failure_time |-> -1, state |-> "closed"]

\* ThoughtStream.__init__ and no stream endpoint called yet.
StreamConstructed ==
    consumer = [k \in Consumers |-> NoConsumer]

EndpointConstructed ==
    /\ lmNow = 0
    /\ acquires = <<>>
    /\ http_response = NoResponse

\* The parts that hold no call yet.
RestConstructed ==
    /\ race = NoRace
    /\ cacheOp = NoCacheOp
    /\ validation = NoValidation
    /\ selection = NoSelection
    /\ ts = ThoughtStream
    /\ intentOp = NoIntentOp
    /\ strategyOp = NoStrategyOp

AuxConstructed ==
    /\ StreamConstructed
    /\ limiter = RateLimiter(MaxRate, MaxPer)
    /\ EndpointConstructed
    /\ retry = Wrapper("llm_factory", MaxRetries, TRUE)
    /\ RestConstructed

BreakerConstructed ==
    /\ cbNow = 0
    /\ inflight = [c \in Callers |-> NotCalling]
    /\ cbHist = [consec |-> 0, lastFailAt |-> -1, calls |-> 0, last |-> NoEvent]

Init ==
    /\ providers \in SUBSET ProviderNames
    /\ redis_client \in BOOLEAN
    /\ AnalyzerConstructed
    /\ cb = CircuitBreaker(MaxThreshold, MaxRecovery)
    /\ BreakerConstructed
    /\ AuxConstructed

InitBreaker ==
    /\ providers = {}
    /\ redis_client = FALSE
    /\ AnalyzerConstructed
    /\ cb \in { CircuitBreaker(th, rt) :
                   th \in 1..MaxThreshold, rt \in 1..MaxRecovery }
    /\ BreakerConstructed
    /\ AuxConstructed

\* The process-intent endpoint behind its rate limiter.
InitEndpoint ==
    /\ providers = {"groq"}
    /\ redis_client = FALSE
    /\ AnalyzerConstructed
    /\ cb = CircuitBreaker(MaxThreshold, MaxRecovery)
    /\ BreakerConstructed
    /\ StreamConstructed
    /\ limiter \in { RateLimiter(rate, MaxPer) : rate \in 1..MaxRate }
    /\ EndpointConstructed
    /\ retry = Wrapper("llm_factory", MaxRetries, TRUE)
    /\ RestConstructed

\* A RateLimiter of any rate and period, before its first acquire.
InitLimiter ==
    /\ providers = {}
    /\ redis_client = FALSE
    /\ AnalyzerConstructed
    /\ cb = CircuitBreaker(MaxThreshold, MaxRecovery)
    /\ BreakerConstructed
    /\ StreamConstructed
    /\ limiter \in { RateLimiter(rate, per) :
                        rate \in 1..MaxRate, per \in 1..MaxPer }
    /\ EndpointConstructed
    /\ retry = Wrapper("llm_factory", MaxRetries, TRUE)
    /\ RestConstructed

\* The service after lifespan has constructed its analyzer.
InitValidate ==
    /\ providers = {}
    /\ redis_client = FALSE
    /\ AnalyzerConstructed
    /\ cb = CircuitBreaker(MaxThreshold, MaxRecovery)
    /\ BreakerConstructed
    /\ AuxConstructed

\* An IntentAnalyzer before any call.
InitIntent ==
    /\ providers = {}
    /\ redis_client = FALSE
    /\ AnalyzerConstructed
    /\ cb = CircuitBreaker(MaxThreshold, MaxRecovery)
    /\ BreakerConstructed
    /\ AuxConstructed

\* The strategy helpers of an analyzer, each called by itself.
InitStrategy ==
    /\ providers \in {{}, {"groq"}, {"ollama"}}
    /\ redis_client = FALSE
    /\ AnalyzerConstructed
    /\ cb = CircuitBreaker(MaxThreshold, MaxRecovery)
    /\ BreakerConstructed
    /\ AuxConstructed

\* A ThoughtStream and the callers of its operations.
InitThought ==
    /\ providers = {}
    /\ redis_client = FALSE
    /\ AnalyzerConstructed
    /\ cb = CircuitBreaker(MaxThreshold, MaxRecovery)
    /\ BreakerConstructed
    /\ AuxConstructed

\* A factory with any of the four providers configured, asked for a provider.
InitSelection ==
    /\ providers \in SUBSET FactoryProviders
    /\ redis_client = FALSE
    /\ AnalyzerConstructed
    /\ cb = CircuitBreaker(MaxThreshold, MaxRecovery)
    /\ BreakerConstructed
    /\ AuxConstructed

\* A factory with any of the four providers configured.
InitRace ==
    /\ providers \in SUBSET FactoryProviders
    /\ redis_client = FALSE
    /\ AnalyzerConstructed
    /\ cb = CircuitBreaker(MaxThreshold, MaxRecovery)
    /\ BreakerConstructed
    /\ AuxConstructed

\* A decorated operation: GroqProvider.generate behind the decorator of
\* llm_factory, or an operation behind the decorator of resilience.
InitRetry ==
    /\ providers = {"groq"}
    /\ redis_client = FALSE
    /\ AnalyzerConstructed
    /\ cb = CircuitBreaker(MaxThreshold, MaxRecovery)
    /\ BreakerConstructed
    /\ StreamConstructed
    /\ limiter = RateLimiter(MaxRate, MaxPer)
    /\ EndpointConstructed
    /\ retry \in { Wrapper(d, n, e) :
                      d \in Decorators, n \in 0..MaxRetries, e \in BOOLEAN }
    /\ RestConstructed

\* The cache of an analyzer, with or without a shared store.
InitCache ==
    /\ providers = {}
    /\ redis_client \in BOOLEAN
    /\ AnalyzerConstructed
    /\ cb = CircuitBreaker(MaxThreshold, MaxRecovery)
    /\ BreakerConstructed
    /\ AuxConstructed

\* The analyzer and the stream endpoint of one service: Groq is configured
\* or no provider is, and no shared store is connected.
\* A second request with the text and the context of the first, after the
\* first call has returned: what the first call has put in the cache is
\* there for it.
AnalyzeAgain(request_id, redisOutcome) ==
    /\ ncalls = 1
    /\ NoCallInProgress
    /\ AnalyzeStart(call[1].text, call[1].context, request_id, redisOutcome)

InitStream ==
    /\ providers \in SUBSET {"groq"}
    /\ redis_client = FALSE
    /\ AnalyzerConstructed
    /\ cb = CircuitBreaker(MaxThreshold, MaxRecovery)
    /\ BreakerConstructed
    /\ AuxConstructed

\* The steps of a call that has started, with the given answers of
\* generate.
CallSteps(c, gens) ==
    \/ \E ro \in RedisOutcomes : AttemptStrategy(c, ro)
    \/ \E probe \in Probes : ProviderAnswer(c, probe)
    \/ \E gen \in gens, ro \in RedisOutcomes : GenerateAnswer(c, gen, ro)
    \/ \E ro \in RedisOutcomes : DetailStep(c, ro)
    \/ \E ro \in RedisOutcomes : MinimalFallback(c, ro)

\* The steps of so many analyze_intent calls on the given texts and request
\* ids, with the given answers of generate.
AnalysisSteps(calls, texts, ids, gens) ==
    \/ \E text \in texts, context \in Contexts, request_id \in ids,
          ro \in RedisOutcomes :
           ncalls < calls /\ AnalyzeStart(text, context, request_id, ro)
    \/ \E c \in Calls : CallSteps(c, gens)

\* The steps of analyze_intent.
NextAnalysis ==
    AnalysisSteps(Cardinality(Calls), Texts, {"None"} \cup RequestIds,
                  GenerateOutcomes)


NextAnalyzer ==
    \/ NextAnalysis
    \/ clear_old_entries
    \/ Tick

NextBreaker ==
    \/ \E c \in Callers : CbEnter(c)
    \/ \E c \in Callers : CbSucceed(c)
    \/ \E c \in Callers : CbFail(c)
    \/ \E c \in Callers : CbCancel(c)
    \/ CbTick

NextStream ==
    \/ AnalysisSteps(1, Texts, {"None"} \cup RequestIds, GenerateOutcomes)
    \/ \E request_id \in {"None"} \cup RequestIds, ro \in RedisOutcomes :
           AnalyzeAgain(request_id, ro)
    \/ \E k \in Consumers, r \in RequestIds : StreamOpen(k, r)
    \/ \E k \in Consumers : StreamDeliver(k)
    \/ \E k \in Consumers : StreamCancel(k)

\* The text of the requests.
EndpointTexts == {UnreadText}

\* The answers of generate to the calls of the requests: generate raises,
\* or answers with one task.
EndpointGenerateOutcomes ==
    { [kind |-> "raise"],
      [kind |-> "text",
       response |-> JsonResponse("bug_fix", 80, <<TaskData(1, {}, 800)>>)] }

NextEndpoint ==
    \/ \E text \in EndpointTexts, context \in Contexts, request_id \in RequestIds :
           ProcessIntent(text, context, request_id)
    \/ \E c \in Slots, ro \in RedisOutcomes : RunBody(c, ro)
    \/ \E c \in Slots : WithinDeadline(c) /\ CallSteps(c, EndpointGenerateOutcomes)
    \/ \E c \in Slots : Timeout(c)
    \/ \E c \in Slots : Respond(c)
    \/ \E seconds \in {1, ProcessingTimeout} : LmTick(seconds)

NextLimiter ==
    \/ LimiterAcquire
    \/ LoopTick

NextRetry ==
    \/ RetryCall
    \/ RetrySucceed
    \/ \E permanent \in BOOLEAN : RetryFail(permanent)
    \/ RetryWake

NextRace ==
    \/ \E requested \in SUBSET FactoryProviders : ExecuteConcurrent(requested)
    \/ \E ollama_up \in BOOLEAN : RaceProvidersAnswer(ollama_up)
    \/ \E p \in FactoryProviders, outcome \in RaceOutcomes :
           TryProviderEnds(p, outcome)
    \/ NextCompleted

NextValidate == \E tasks \in Breakdowns : ValidateTasks(tasks)

NextSelection ==
    \/ \E preferred \in PreferredNames, first \in {"true", "false", "raise"} :
           GetProvider(preferred, first)
    \/ \E probe \in Probes : SelectionProvidersAnswer(probe)

NextThought ==
    \/ \E id \in StreamIds : CreateStream(id)
    \/ \E id \in StreamIds : CloseStream(id)
    \/ \E id \in StreamIds : EmitThought(id)
    \/ \E id \in StreamIds : StreamThoughts(id)
    \/ \E q \in 1..MaxQueues : ReaderNext(q)
    \/ \E q \in 1..MaxQueues : ReaderCancel(q)

NextIntent ==
    \/ HasCircularDependencies
    \/ OptimizeTaskOrder
    \/ IaValidateTasks

NextCache ==
    \/ \E key \in Keys, ro \in RedisOutcomes : CacheGet(key, ro)
    \/ \E key \in Keys, value \in CacheValues, ro \in RedisOutcomes :
           CacheSet(key, value, ro)
    \/ NewInstance
    \/ clear_old_entries
    \/ Tick

NextStrategy ==
    \/ RuleBasedWithNlp
    \/ LlmWithGuidedGeneration
    \/ LlmWithSimplePrompt
    \/ \E probe \in Probes : StrategyProviderAnswer(probe)
    \/ \E gen \in DirectOutcomes : StrategyGenerateAnswer(gen)
    \/ ParseJsonResponse

Next ==
    \/ NextAnalyzer
    \/ NextBreaker
    \/ NextStream
    \/ NextEndpoint
    \/ NextRetry
    \/ NextCache
    \/ NextRace
    \/ NextValidate
    \/ NextSelection
    \/ NextThought
    \/ NextIntent
    \/ NextStrategy

\* The analyzer alone, the breaker left as constructed.
Spec == Init /\ [][NextAnalyzer]_vars

\* The breaker alone, the analyzer left as constructed.
SpecBreaker == InitBreaker /\ [][NextBreaker]_vars

\* The analyzer together with the stream endpoint.
SpecStream == InitStream /\ [][NextStream]_vars

\* The process-intent endpoint alone.
SpecEndpoint == InitEndpoint /\ [][NextEndpoint]_vars

\* One call through a retry wrapper.
SpecRetry == InitRetry /\ [][NextRetry]_vars

SpecLimiter == InitLimiter /\ [][NextLimiter]_vars

\* One call of execute_concurrent.
SpecRace == InitRace /\ [][NextRace]_vars

\* The endpoint /api/v1/validate-tasks.
SpecValidate == InitValidate /\ [][NextValidate]_vars

\* Calls of get_provider.
SpecSelection == InitSelection /\ [][NextSelection]_vars

\* The ThoughtStream alone.
SpecThought == InitThought /\ [][NextThought]_vars

\* The operations of an IntentAnalyzer on a task list.
SpecIntent == InitIntent /\ [][NextIntent]_vars

\* The strategy helpers alone.
SpecStrategy == InitStrategy /\ [][NextStrategy]_vars

\* The cache alone.
SpecCache == InitCache /\ [][NextCache]_vars

(***************************************************************************)
(* Properties of analyze_intent (checked under Spec).                      *)
(***************************************************************************)
Done(c) == call[c].pc = "done"

ReturnedResult(c) == Done(c) /\ call[c].ret # NoResult

TaskIds(tasks) == {tasks[k].id : k \in 1..Len(tasks)}

\* C1: analyze_intent always ends by returning an IntentAnalysisResult: no
\* exception raised inside a strategy or a provider leaves it, whatever the
\* strategies and the shared cache do.
C1_NoExceptionEscapes ==
    \A c \in Calls :
        /\ ~call[c].raised
        /\ Done(c) => call[c].ret # NoResult /\ call[c].ret.kind = "result"
        /\ call[c].pc = "strategies" => call[c].i \in 1..Len(strategies)

\* A call that returned although strategies raised on the way.
C1_Witness ==
    \E c \in Calls :
        /\ ReturnedResult(c)
        /\ \E k \in 1..Len(outcomes[c]) : outcomes[c][k] = "raise"

\* C2: when no provider is available, a call that misses the cache returns
\* the result of the rule-based or of the keyword strategy, and its metadata
\* names that strategy.
C2_FallsBackToNonLlmStrategy ==
    \A c \in Calls :
        (Done(c) /\ call[c].i > 0 /\ ~call[c].available)
            => call[c].ret.metadata.strategy \in {"rule_based_nlp", "basic_keywords"}

\* The call waits inside the strategy it invoked last.
InsideStrategy(c) == call[c].pc \in {"get_provider", "generate"}

\* C3: strategies are invoked in the order of self.strategies, none is
\* invoked after one returned a result, and that first result is the value
\* cached and returned.
C3_FixedOrderFirstResultWins ==
    \A c \in Calls :
        /\ Len(invoked[c]) = Len(outcomes[c]) + (IF InsideStrategy(c) THEN 1 ELSE 0)
        /\ \A k \in 1..Len(invoked[c]) : invoked[c][k] = k
        /\ \A k \in 1..Len(outcomes[c]) :
               outcomes[c][k] = "result" =>
                   /\ k = Len(invoked[c])
                   /\ call[c].pc \in {"detail", "done"}
                   /\ call[c].pc = "detail" =>
                          cache_writes[c] = <<>> /\ call[c].result # NoResult
                   /\ Done(c) =>
                          /\ cache_writes[c] = <<call[c].ret>>
                          /\ call[c].ret # NoResult
                          /\ call[c].request_id # "None" => call[c].ret = call[c].result
        /\ \A k \in 1..(Len(outcomes[c]) - 1) : outcomes[c][k] \in {"none", "raise"}
        /\ (Done(c) /\ call[c].i > 0 /\ call[c].i <= Len(strategies))
               => outcomes[c][Len(outcomes[c])] = "result"

\* A strategy returned a result, which was cached and returned.
C3_Witness ==
    \E c \in Calls :
        /\ Done(c)
        /\ Len(outcomes[c]) >= 1
        /\ outcomes[c][Len(outcomes[c])] = "result"
        /\ cache_writes[c] = <<call[c].ret>>
        /\ local_cache[CallKey(c)].present
        /\ local_cache[CallKey(c)].result = call[c].ret

\* C4: a call made within the TTL of an earlier call that had computed and
\* returned the result for the same (text, context) returns a value-equal
\* result, attempts no strategy and makes no provider call.
C4_SecondCallServedFromCache ==
    \A c \in Calls :
        (/\ call[c].pc # "idle"
         /\ call[c].prior.present
         /\ call[c].started - call[c].prior.at < ttl)
            => /\ Done(c)
               /\ call[c].ret = call[c].prior.result
               /\ invoked[c] = <<>>
               /\ provider_ops[c] = 0

\* A second call that returned the minimal result the first one had cached.
C4_Witness ==
    \E c \in Calls :
        /\ Done(c)
        /\ call[c].prior.present
        /\ call[c].prior.by < c
        /\ call[c].started > call[c].prior.at
        /\ call[c].started - call[c].prior.at < ttl
        /\ call[c].ret.metadata.error = "all_strategies_failed"
        /\ ~redis_client

\* C5: the task ids of every returned result are pairwise distinct.
C5_TaskIdsDistinct ==
    \A c \in Calls :
        ReturnedResult(c) =>
            \A a, b \in 1..Len(call[c].ret.tasks) :
                a # b => call[c].ret.tasks[a].id # call[c].ret.tasks[b].id

\* The ids reachable from id x along dependencies, in at most n steps.
RECURSIVE DependsOn(_, _, _)
DependsOn(tasks, x, n) ==
    LET direct == UNION {tasks[k].dependencies : k \in {j \in 1..Len(tasks) : tasks[j].id = x}}
    IN  IF n = 0 THEN {}
        ELSE direct \cup UNION {DependsOn(tasks, d, n - 1) : d \in direct}

HasCycle(tasks) == \E x \in TaskIds(tasks) : x \in DependsOn(tasks, x, Len(tasks))

\* C6: in every returned result a dependency that is a task of the result
\* comes before its dependent, unless the dependencies contain a cycle.
C6_DependenciesPrecedeDependents ==
    \A c \in Calls :
        (ReturnedResult(c) /\ ~HasCycle(call[c].ret.tasks)) =>
            \A t \in 1..Len(call[c].ret.tasks) :
                \A d \in call[c].ret.tasks[t].dependencies \cap TaskIds(call[c].ret.tasks) :
                    \E k \in 1..(t - 1) : call[c].ret.tasks[k].id = d

\* C7: every returned result has a confidence in [0, 1] and at least one
\* task; a provider response with a confidence out of range or without a
\* task that parses is never the returned result.
C7_ConfidenceInRangeTasksNonEmpty ==
    \A c \in Calls :
        ReturnedResult(c) =>
            /\ 0 <= call[c].ret.confidence
            /\ call[c].ret.confidence <= 100
            /\ Len(call[c].ret.tasks) >= 1
            /\ call[c].rejected
                   => call[c].ret.metadata.error = "all_strategies_failed"

\* The provider's answer was rejected (a confidence out of range or no task
\* that parses) and the call still returned a result in range.
C7_Witness ==
    \E c \in Calls :
        /\ ReturnedResult(c)
        /\ call[c].rejected
        /\ call[c].ret.confidence <= 100

(***************************************************************************)
(* Properties of the circuit breaker (checked under SpecBreaker).          *)
(***************************************************************************)
\* C8: after failure_threshold consecutive failures the breaker is open, and
\* a call made while it is open and no more than recovery_timeout after the
\* last failure is refused without the wrapped operation being invoked.
C8_OpensAndFailsFast ==
    /\ (cbHist.last.kind = "failure" /\ cbHist.consec >= cb.failure_threshold)
           => cb.state = "open"
    /\ (cbHist.last.kind = "invoked" /\ cbHist.last.stateBefore = "open")
           => cbHist.last.at - cbHist.lastFailAt > cb.recovery_timeout
    /\ (cbHist.last.kind = "rejected")
           => /\ cbHist.last.stateBefore = "open"
              /\ inflight[cbHist.last.caller].pc = "idle"

\* A call was refused after the threshold of consecutive failures.
C8_Witness ==
    /\ cbHist.last.kind = "rejected"
    /\ cbHist.consec >= cb.failure_threshold
    /\ cb.failure_threshold >= 2
    /\ cbHist.last.at - cbHist.lastFailAt = cb.recovery_timeout

\* C9: while the breaker is half-open and its trial call is in flight, no
\* second call reaches the wrapped operation.
C9_OneTrialCall ==
    \A c \in Callers : inflight[c].pc = "running" => ~inflight[c].duringTrial

\* C10: the outcome of the trial call decides the next state: a success
\* closes the breaker and clears failure_count, a failure opens it again
\* and restarts the recovery timer at the time of that failure.
C10_TrialOutcomeDecides ==
    /\ (cbHist.last.kind = "success" /\ cbHist.last.trial)
           => cb.state = "closed" /\ cb.failure_count = 0
    /\ (cbHist.last.kind = "failure" /\ cbHist.last.trial)
           => cb.state = "open" /\ cb.last_failure_time = cbHist.last.at

(***************************************************************************)
(* Properties of the thought stream (checked under SpecStream).            *)
(***************************************************************************)
\* C11: the step that ends analyze_intent for a request id (a cache hit, a
\* winning strategy or the minimal result) closes the stream of that id.
C11_StreamClosedWhenAnalysisEnds ==
    [][\A r \in RequestIds, c \in Calls :
          (/\ call'[c] # call[c]
           /\ call'[c].pc = "done"
           /\ call'[c].request_id = r
           /\ active_streams[r].open)
              => ~active_streams'[r].open]_vars

\* C12: every thought the first analyze_intent call of a request id emits is
\* enqueued for, or already delivered to, the subscriber of that id.
C12_NoEmittedEventDropped ==
    \A r \in RequestIds, k \in Consumers :
        (/\ ncalls = 1
         /\ call[1].request_id = r
         /\ Attached(k, r))
            => consumer[k].delivered + Len(active_streams[r].queue)
                   = call[1].emitted

(***************************************************************************)
(* Properties of process_intent (checked under SpecEndpoint) and of the    *)
(* windows of its rate limiter (checked under SpecLimiter).                *)
(***************************************************************************)
\* C13: when the analysis does not finish within the deadline, the caller is
\* told of a gateway timeout: status 504 with detail 'Processing timeout'.
C13_TimeoutReportedAs504 ==
    http_response.outcome = "TimeoutError"
        => /\ http_response.status_code = 504
           /\ http_response.detail = "Processing timeout"

\* The exact time between the acquire calls i and j >= i, from the readings
\* of the clock that the two calls made.
Between(i, j) == sub_limbs(acquires[j].at, acquires[i].at, 1, 0)

\* C14: of rate + 1 successive acquire calls that start on a full bucket and
\* fall within one window of per seconds, at least one is refused.
C14_WindowHoldsAtMostRate ==
    \A i \in 1..Len(acquires) :
        (/\ i + limiter.rate <= Len(acquires)
         /\ acquires[i].refilled = to_float(limiter.rate)
         /\ less(Between(i, i + limiter.rate), to_float(limiter.per)))
            => \E j \in i..(i + limiter.rate) : ~acquires[j].granted

(***************************************************************************)
(* Properties of the retry wrappers (checked under SpecRetry).             *)
(***************************************************************************)
\* C15: a wrapper configured with N retries raises only after N + 1
\* invocations that all failed, and raises the exception of the last one.
C15_RaisesAfterNRetries ==
    retry.pc = "raised"
        => /\ retry.invocations = retry.retries + 1
           /\ retry.raised.id = retry.invocations

\* C19: after an invocation of generate failed permanently, generate is not
\* invoked again and the provider is no longer offered by get_provider.
C19_PermanentFailureNotRetried ==
    (retry.decorator = "llm_factory" /\ retry.permanent_at > 0)
        => /\ retry.invocations = retry.permanent_at
           /\ \A probe \in Probes : get_provider(probe) # "groq"

(***************************************************************************)
(* Properties of the cache (checked under SpecCache).                      *)
(***************************************************************************)
\* C16: get never returns an entry for which the TTL or more has passed
\* since the set that created it, from the local map or the shared store.
C16_NoEntryOlderThanTtl ==
    (cacheOp.kind = "get" /\ cacheOp.result # NoResult)
        => cacheOp.at - cacheOp.origin < ttl

\* C17: get and set never raise when the shared store fails; after a set
\* whose shared-store write failed the local map holds the value for the
\* TTL, and a get of the key on that instance within the TTL returns it.
C17_SharedStoreFailureSwallowed ==
    /\ cacheOp.kind \in {"get", "set"} => ~cacheOp.raised
    /\ (cacheOp.kind = "set" /\ cacheOp.redis_failed /\ now - cacheOp.at < ttl)
           => /\ local_cache[cacheOp.key].present
              /\ local_cache[cacheOp.key].result = cacheOp.result
    /\ (/\ cacheOp.kind = "get"
        /\ cacheOp.last_set[cacheOp.key].present
        /\ cacheOp.last_set[cacheOp.key].redis_failed
        /\ cacheOp.at - cacheOp.last_set[cacheOp.key].at < ttl)
           => cacheOp.result = cacheOp.last_set[cacheOp.key].value

\* A get whose read of the shared store was not needed returned, later and
\* within the TTL, the value of a set whose shared-store write had failed.
C17_Witness ==
    /\ cacheOp.kind = "get"
    /\ ~cacheOp.raised
    /\ cacheOp.last_set[cacheOp.key].present
    /\ cacheOp.last_set[cacheOp.key].redis_failed
    /\ cacheOp.at > cacheOp.last_set[cacheOp.key].at
    /\ cacheOp.result = cacheOp.last_set[cacheOp.key].value

(***************************************************************************)
(* Properties of execute_concurrent (checked under SpecRace).              *)
(***************************************************************************)
\* C18: once execute_concurrent has ended after a candidate's generate
\* succeeded, it has returned the text of the first such candidate and no
\* try_provider of another candidate is still running.
C18_RaceReturnsFirstAndCancelsRest ==
    (race.pc \in {"returned", "raised"} /\ race.winner # "None")
        => /\ race.pc = "returned"
           /\ race.result = race.winner
           /\ \A p \in race.tasks : race.status[p] # "running"

(***************************************************************************)
(* Properties of validate_tasks (checked under SpecValidate).              *)
(***************************************************************************)
\* C20: for a breakdown of two tasks that depend on each other,
\* validate_tasks answers is_valid = False and reports an issue.
C20_CycleReportedInvalid ==
    (/\ validation.kind = "validated"
     /\ Len(validation.tasks) = 2
     /\ validation.tasks[1].id # validation.tasks[2].id
     /\ validation.tasks[2].id \in validation.tasks[1].dependencies
     /\ validation.tasks[1].id \in validation.tasks[2].dependencies)
        => /\ ~validation.valid
           /\ validation.issues # <<>>

(***************************************************************************)
(* Properties of get_provider (checked under SpecSelection).               *)
(***************************************************************************)
\* C21: get_provider(preferred) returns the preferred provider only if it is
\* configured, its priority is below 50 and its is_available() is true;
\* otherwise the available provider of the smallest priority value, and None
\* exactly when no configured provider is available.  What it returns
\* answered true to is_available() in this call.
C21_PreferredOrBestAvailable ==
    selection.kind \notin {"none", "get_available_providers"} =>
        LET s == selection
            available == { p \in providers : s.probe[p] = "true" }
            takes == /\ s.preferred \in providers
                     /\ Priority(s.preferred) < FastThreshold
                     /\ s.first = "true"
        IN  /\ s.kind = "returned"
            /\ (s.ret # "None" /\ s.ret = s.preferred)
                  => takes \/ (s.gathered /\ s.ret \in available)
            /\ takes => s.ret = s.preferred
            /\ ~takes => /\ s.gathered
                         /\ s.ret = "None" <=> available = {}
                         /\ s.ret # "None" =>
                               /\ s.ret \in available
                               /\ \A q \in available :
                                     Priority(s.ret) <= Priority(q)
            /\ s.ret # "None" =>
                  \/ s.ret = s.preferred /\ s.first = "true"
                  \/ s.gathered /\ s.probe[s.ret] = "true"

\* A slow preferred provider that is available was passed over for a faster
\* one.
C21_Witness ==
    /\ selection.kind = "returned"
    /\ selection.preferred = "ollama"
    /\ "ollama" \in providers
    /\ selection.probe["ollama"] = "true"
    /\ selection.ret \notin {"ollama", "None"}

(***************************************************************************)
(* Properties of the ThoughtStream (checked under SpecThought).            *)
(***************************************************************************)
IsPrefix(a, b) == Len(a) <= Len(b) /\ \A k \in 1..Len(a) : a[k] = b[k]

\* The thoughts put on a queue before the first sentinel.
BeforeSentinel(items) ==
    LET firsts == {k \in 1..Len(items) : items[k] = Sentinel}
        n == IF firsts = {} THEN Len(items)
             ELSE (CHOOSE k \in firsts : \A j \in firsts : k <= j) - 1
    IN  SubSeq(items, 1, n)

\* C22: what the reader of a stream has yielded is at every moment the
\* thoughts emitted to the stream between its creation and its closing, in
\* the order of emission and each once, up to some point; a reader that
\* stopped at the sentinel has yielded them all, and no thought follows the
\* sentinel on the queue.
C22_YieldedOnceInOrder ==
    \A q \in 1..MaxQueues :
        /\ IsPrefix(ts.readers[q].yielded, BeforeSentinel(ts.put[q]))
        /\ \A k \in 1..Len(ts.put[q]) :
               ts.put[q][k] = Sentinel => k = Len(ts.put[q])
        /\ ts.readers[q].pc = "ended" =>
               /\ ts.readers[q].yielded = BeforeSentinel(ts.put[q])
               /\ ts.put[q] # <<>>
               /\ ts.put[q][Len(ts.put[q])] = Sentinel
               /\ ts.queues[q] = <<>>

\* A reader stopped at the sentinel after it had yielded two thoughts.
C22_Witness ==
    \E q \in 1..MaxQueues :
        /\ ts.readers[q].pc = "ended"
        /\ Len(ts.readers[q].yielded) >= 2

\* C23: emit_thought for an id that has no open stream returns (no wait, no
\* exception) and leaves active_streams and every queue as they were.
C23_EmitWithoutStreamIsNoOp ==
    [][(/\ ts'.emits = ts.emits + 1
        /\ ts'.last.op = "emit_thought"
        /\ ts.active[ts'.last.id] = 0)
           => /\ ts'.active = ts.active
              /\ ts'.queues = ts.queues
              /\ ts'.put = ts.put
              /\ ts'.made = ts.made
              /\ ts'.readers = ts.readers]_vars

\* An emit_thought found no stream under an id whose stream had been closed.
C23_Witness ==
    /\ ts.last.op = "emit_thought"
    /\ ~ts.last.found
    /\ \E q \in 1..MaxQueues :
          /\ ts.readers[q].id = ts.last.id
          /\ ts.readers[q].pc \in {"ended", "cancelled"}

(***************************************************************************)
(* Properties of the IntentAnalyzer operations (checked under SpecIntent). *)
(***************************************************************************)
Ids(tasks) == { tasks[k].id : k \in 1..Len(tasks) }

\* The ids the tasks of id x depend on.
DirectDeps(tasks, x) ==
    UNION { { tasks[k].dependencies[d] : d \in 1..Len(tasks[k].dependencies) } :
            k \in { j \in 1..Len(tasks) : tasks[j].id = x } }

RECURSIVE ReachedWithin(_, _, _)

\* The ids reached from x along one to n dependencies.
ReachedWithin(tasks, x, n) ==
    IF n = 0 THEN {}
    ELSE DirectDeps(tasks, x) \cup
         UNION { ReachedWithin(tasks, d, n - 1) : d \in DirectDeps(tasks, x) }

Circular(tasks) ==
    \E x \in Ids(tasks) : x \in ReachedWithin(tasks, x, Len(tasks))

Dangling(tasks) ==
    \E x \in Ids(tasks) : DirectDeps(tasks, x) \ Ids(tasks) # {}

\* C24: validate_tasks answers is_valid = False exactly for a breakdown with
\* a dependency cycle or a dependency on an id no task has; high estimates
\* and missing acceptance criteria do not change the answer, and the
\* breakdown is as it was given.
C24_InvalidIffCycleOrDangling ==
    intentOp.kind = "validate" =>
        /\ ~intentOp.ret.is_valid
               <=> (Circular(intentOp.tasks) \/ Dangling(intentOp.tasks))
        /\ intentOp.ret.is_valid <=> intentOp.ret.issues = <<>>
        /\ intentOp.ret.tasks = intentOp.tasks

\* A breakdown with a high estimate and without acceptance criteria was
\* found valid, with both suggestions.
C24_Witness ==
    /\ intentOp.kind = "validate"
    /\ intentOp.ret.is_valid
    /\ \E k \in 1..Len(intentOp.tasks) :
          /\ intentOp.tasks[k].estimated_hours > HighEstimate * 100
          /\ ~intentOp.tasks[k].has_criteria
    /\ Len(intentOp.ret.suggestions) >= 2

\* C25: _has_circular_dependencies answers True exactly when some task
\* reaches itself along dependencies; an id that no task has leads nowhere.
C25_TrueIffDirectedCycle ==
    intentOp.kind = "has_circular" =>
        (intentOp.ret <=> Circular(intentOp.tasks))

\* A list with a dependency on an id no task has, and no cycle, was
\* answered False.
C25_Witness ==
    /\ intentOp.kind = "has_circular"
    /\ Dangling(intentOp.tasks)
    /\ Len(intentOp.tasks) >= 2
    /\ \E k \in 1..Len(intentOp.tasks) :
          DirectDeps(intentOp.tasks, k) \cap Ids(intentOp.tasks) # {}
    /\ ~intentOp.ret

\* C26: _optimize_task_order returns every task of the list exactly once,
\* with or without a cycle; without one, a dependency that is in the list
\* comes before its dependent.
C26_PermutationDepsFirst ==
    intentOp.kind = "optimize" =>
        LET given == intentOp.tasks
            out == intentOp.ret
        IN  /\ Len(out) = Len(given)
            /\ \A k \in 1..Len(given) : \E j \in 1..Len(out) : out[j] = given[k]
            /\ ~Circular(given) =>
                  \A j \in 1..Len(out) :
                      \A d \in DirectDeps(given, out[j].id) \cap Ids(given) :
                          \E i \in 1..(j - 1) : out[i].id = d

\* A list whose first task depends on its second was put in the other
\* order.
C26_Witness ==
    /\ intentOp.kind = "optimize"
    /\ Len(intentOp.tasks) = 2
    /\ ~Circular(intentOp.tasks)
    /\ intentOp.ret # intentOp.tasks

(***************************************************************************)
(* Progress of the thoughts of one analysis (checked under SpecStream).    *)
(***************************************************************************)
\* The progress values of the thoughts on a queue that carry one.
ProgressOf(queue) ==
    SelectSeq([k \in 1..Len(queue) |-> queue[k].progress],
              LAMBDA v : v >= 0)

NonDecreasing(values) ==
    \A k \in 1..(Len(values) - 1) : values[k] <= values[k + 1]

\* The thoughts on a queue that call c has emitted.
ThoughtsOf(c, queue) == SelectSeq(queue, LAMBDA thought : thought.call = c)

\* C27: the progress values of the thoughts one analyze_intent call has put
\* on the stream of its request, those still to be delivered, never go down,
\* whichever strategy wins and when the call returns what the cache holds;
\* on the queue under the request id and on a queue that a generator kept.
C27_ProgressNonDecreasing ==
    \A c \in Calls :
        /\ \A r \in RequestIds :
              NonDecreasing(ProgressOf(ThoughtsOf(c, active_streams[r].queue)))
        /\ \A k \in Consumers :
              NonDecreasing(ProgressOf(ThoughtsOf(c, consumer[k].queue)))

\* A call that a strategy won has put its first thought, the strategy's
\* thought and the detailed analysis on a stream that was open before it
\* began; a second call with the same text has returned what the first put
\* in the cache and has put its two thoughts on the same stream; none has
\* been delivered.
C27_Witness ==
    \E r \in RequestIds :
        /\ ncalls = 2
        /\ \A c \in Calls : call[c].pc = "done" /\ call[c].request_id = r
        /\ \E k \in 1..Len(outcomes[1]) : outcomes[1][k] = "result"
        /\ outcomes[2] = <<>>
        /\ call[2].ret = call[1].ret
        /\ Len(ThoughtsOf(1, active_streams[r].queue))
              = 2 + Len(detailed_analysis)
        /\ ProgressOf(ThoughtsOf(2, active_streams[r].queue)) = <<5, 100>>

(***************************************************************************)
(* The token bucket of RateLimiter (checked under SpecLimiter).  The       *)
(* floats of the limiter are compared in exact arithmetic: a float is the  *)
(* number its limbs spell.  No limbs spell a number below 0; a subtraction *)
(* that would go below 0 wraps around to a number above every rate.        *)
(***************************************************************************)
\* x with one more limb, and x * n for an integer n in 0..Base - 1, which
\* has one more limb.
wide(x) == Append(x, 0)

times(x, n) == mul_limb(x, n, 1, 0)

\* 2 ^ -e for e in 0..(FracLimbs * LimbBits).
two_to_minus(e) ==
    LET b == FracLimbs * LimbBits - e
    IN  [i \in 1..(FracLimbs + 1) |->
            IF i = b \div LimbBits + 1 THEN 2 ^ (b % LimbBits) ELSE 0]

\* x and y differ by at most slack.
within(x, y, slack) ==
    /\ ~less(add_limbs(y, slack, 1, 0), x)
    /\ ~less(add_limbs(x, slack, 1, 0), y)

\* The allowance that an acquire call found plus rate / per for each second
\* since the last check, capped at rate; all of it times per, in exact
\* arithmetic.
Due(a) ==
    LET elapsed == sub_limbs(a.at, a.last_check, 1, 0)
        accrued == add_limbs(times(a.before, limiter.per),
                             times(elapsed, limiter.rate), 1, 0)
        capacity == wide(to_float(limiter.rate * limiter.per))
    IN  IF less(capacity, accrued) THEN capacity ELSE accrued

\* C28: after every acquire the allowance lies between 0 and rate.  What
\* the refill left in the bucket is the allowance of before plus the elapsed
\* time times rate / per, capped at rate, up to the rounding of the floats
\* (2^-40 allows for it).  A granted acquire found at least 1 and leaves
\* exactly 1 less; a denied one found less than 1 and leaves all of it,
\* which is no less than the allowance of before.  The limiter holds what
\* its last acquire left and the time that it read.
C28_AllowanceWithinBucket ==
    /\ \A i \in 1..Len(acquires) :
          LET a == acquires[i]
          IN  /\ ~less(a.at, a.last_check)
              /\ ~less(to_float(limiter.rate), a.after)
              /\ within(times(a.refilled, limiter.per), Due(a),
                        wide(two_to_minus(40)))
              /\ a.granted => /\ ~less(a.refilled, to_float(1))
                              /\ add_limbs(a.after, to_float(1), 1, 0)
                                     = a.refilled
              /\ ~a.granted => /\ less(a.refilled, to_float(1))
                               /\ a.after = a.refilled
                               /\ ~less(a.after, a.before)
    /\ acquires # <<>>
          => /\ limiter.allowance = acquires[Len(acquires)].after
             /\ limiter.last_check = acquires[Len(acquires)].at

\* The last acquire was denied after a refill that the bucket keeps, and
\* the one before it was granted; the refills since the bucket was empty
\* make a whole token in exact arithmetic, and less than one in the floats
\* of the limiter.
C28_Witness ==
    /\ Len(acquires) >= 2
    /\ ~acquires[Len(acquires)].granted
    /\ less(acquires[Len(acquires) - 1].at, acquires[Len(acquires)].at)
    /\ acquires[Len(acquires) - 1].granted
    /\ less(limiter.allowance, to_float(1))
    /\ ~less(add_limbs(limiter.allowance, two_to_minus(40), 1, 0), to_float(1))
    /\ limiter.last_check = acquires[Len(acquires)].at

(***************************************************************************)
(* The delays of retry_with_backoff (checked under SpecRetry), in units of *)
(* the base delay.                                                         *)
(***************************************************************************)
\* The decorator of llm_factory.py has no constant mode.
ExponentialMode == retry.decorator = "llm_factory" \/ retry.exponential

\* C29: the delay before the k-th retry (k = 0, 1, 2, ...) is base * 2^k in
\* exponential mode and base in constant mode; every delay waited is
\* followed by an invocation, so none is waited after the final failed
\* attempt and none after a successful one.
C29_DelaysFollowBackoff ==
    /\ \A k \in 1..Len(retry.sleeps) :
          retry.sleeps[k] = IF ExponentialMode THEN 2 ^ (k - 1) ELSE 1
    /\ retry.pc \in {"calling", "returned", "raised"} /\ retry.invocations > 0
          => Len(retry.sleeps) = retry.invocations - 1
    /\ retry.pc = "sleeping" => Len(retry.sleeps) = retry.invocations

\* An exponential wrapper has waited 1, 2 and 4 base delays and raised its
\* last failure without a further wait.
C29_Witness ==
    /\ ExponentialMode
    /\ retry.pc = "raised"
    /\ retry.retries = 4
    /\ retry.sleeps = <<1, 2, 4>>

(***************************************************************************)
(* The lookup order of IntentCache.get (checked under SpecCache).          *)
(***************************************************************************)
\* The step is a get of the instance at hand.
Got == cacheOp'.kind = "get" /\ cacheOp'.ops = cacheOp.ops + 1

\* The operation before was a get that the shared store answered.
StoreHit ==
    /\ cacheOp.kind = "get"
    /\ cacheOp.store_read
    /\ cacheOp.result # NoResult

\* C30: get reads the shared store only when the in-process map has no
\* entry for the key or an expired one; a get answered by the shared store
\* leaves the entry in the in-process map, and the next get of that key on
\* the same instance within the TTL returns an equal result without reading
\* the shared store.
C30_LocalFirstThenPromoted ==
    [][Got =>
          LET key == cacheOp'.key
          IN  /\ cacheOp'.store_read
                    => \/ ~local_cache[key].present
                       \/ now - local_cache[key].timestamp >= ttl
              /\ (cacheOp'.store_read /\ cacheOp'.result # NoResult)
                    => /\ local_cache'[key].present
                       /\ local_cache'[key].result = cacheOp'.result
              /\ (StoreHit /\ cacheOp.key = key /\ now - cacheOp.at < ttl)
                    => /\ ~cacheOp'.store_read
                       /\ cacheOp'.result = cacheOp.result]_vars

\* A get is answered from the in-process map by an entry that an earlier
\* get took from the shared store, some time after it was set.
C30_Witness ==
    /\ redis_client
    /\ cacheOp.kind = "get"
    /\ ~cacheOp.store_read
    /\ cacheOp.result # NoResult
    /\ local_cache[cacheOp.key].present
    /\ local_cache[cacheOp.key].origin < local_cache[cacheOp.key].timestamp
    /\ local_cache[cacheOp.key].timestamp < now

(***************************************************************************)
(* The size of the in-process cache (checked under Spec).                  *)
(***************************************************************************)
\* The keys the in-process map holds.
LocalEntries == { k \in Keys : local_cache[k].present }

\* IntentCache has no capacity: a capacity that bounds the map has to be
\* below the number of distinct inputs that can be analysed.
LocalCapacity == Cardinality(Keys) - 1

\* C31: the in-process map never holds more entries than a fixed capacity,
\* whatever number of distinct inputs has been analysed.
C31_LocalCacheBounded ==
    Cardinality(LocalEntries) <= LocalCapacity

(***************************************************************************)
(* Properties of the strategy helpers (checked under SpecStrategy).        *)
(***************************************************************************)
\* C32: _rule_based_with_nlp always returns a result, and its confidence is
\* strictly below the confidence of guided generation and of the simple
\* prompt, however many keywords the text matches.
C32_RuleConfidenceBelowLlm ==
    strategyOp.kind = "rule_based" =>
        /\ strategyOp.ret.kind = "result"
        /\ strategyOp.ret.result.confidence < GuidedConfidence
        /\ strategyOp.ret.result.confidence < SimpleConfidence

\* The JSON object a response holds from its first opening brace on, <<>>
\* when no object starts there.
FirstBalanced(response) ==
    LET a == first_open(response)
        r == scan_value(response, a)
    IN  IF a # 0 /\ r.ok THEN SubSeq(response, a, r.next - 1) ELSE <<>>

\* The response is prose, an object that parses to a result by itself, and
\* then text that holds a further closing brace.
TrailingBrace(response) ==
    LET first == FirstBalanced(response)
        end == first_open(response) + Len(first)
    IN  /\ first # <<>>
        /\ parse_json_text(first, 0).kind = "result"
        /\ \E k \in end..Len(response) : response[k] = "}"

\* C33: for a response that holds a balanced object followed by text with a
\* further closing brace, the text handed to the JSON parser is the first
\* balanced object and a result is returned.
C33_FirstBalancedObjectParsed ==
    (strategyOp.kind = "parse_json" /\ TrailingBrace(strategyOp.response))
        => /\ strategyOp.handed = FirstBalanced(strategyOp.response)
           /\ strategyOp.ret.kind = "result"

(***************************************************************************)
(* Further properties of the circuit breaker (checked under SpecBreaker).  *)
(***************************************************************************)
\* The step is the normal return of a wrapped operation.
Succeeded == cbHist' # cbHist /\ cbHist'.last.kind = "success"

\* C34: an open breaker leaves the open state only by the move to
\* half-open; a call that entered before the breaker opened and returns
\* while recovery_timeout has not elapsed changes neither the state nor
\* failure_count.
C34_OpenUntilRecoveryTimeout ==
    [][cb.state = "open" =>
          /\ cb'.state # "open" => cb'.state = "half-open"
          /\ (Succeeded /\ ~should_attempt_reset(cb, cbNow))
                => /\ cb'.state = cb.state
                   /\ cb'.failure_count = cb.failure_count]_vars

\* A call that went through the breaker while it was half-open, as the trial
\* or after it, has ended.
HalfOpenCallEnded ==
    /\ cbHist.last.kind \in {"success", "failure", "cancel"}
    /\ cbHist.last.stateBefore = "half-open"

\* C35: every call that goes through a half-open breaker and ends, by a
\* return, by an expected exception, by cancellation or by another
\* exception, leaves the breaker closed or open.
C35_HalfOpenCallResolves ==
    HalfOpenCallEnded => cb.state \in {"closed", "open"}

\* C39: an open breaker has failure_count >= failure_threshold and a
\* last_failure_time, and a closed one has failure_count below
\* failure_threshold, under every interleaving of calls.
C39_StateAgreesWithCount ==
    /\ cb.state = "open"
          => /\ cb.failure_count >= cb.failure_threshold
             /\ cb.last_failure_time # -1
    /\ cb.state = "closed" => cb.failure_count < cb.failure_threshold

\* The breaker is open and a call that was in flight when it opened has
\* failed since: the count is above the threshold.
C39_Witness ==
    /\ cb.state = "open"
    /\ cb.failure_threshold >= 1
    /\ cb.failure_count > cb.failure_threshold
    /\ cbHist.last.kind = "failure"
    /\ cbHist.last.stateBefore = "open"

(***************************************************************************)
(* Two streams under one request id (checked under SpecThought).           *)
(***************************************************************************)
\* The reader of queue q ends or is cancelled in the step, while the id it
\* reads for has a later queue.
EarlierReaderLeaves(q) ==
    /\ ts.readers[q].pc = "waiting"
    /\ ts'.readers[q].pc \in {"ended", "cancelled"}
    /\ ts.active[ts.readers[q].id] \notin {0, q}

\* C36: when the consumer of an earlier stream of a request id ends or is
\* cancelled, its cleanup neither removes the stream a later create_stream
\* made for that id nor puts the end-of-stream signal on it.
C36_LaterStreamUntouched ==
    [][\A q \in 1..MaxQueues :
          EarlierReaderLeaves(q)
              => /\ ts'.active[ts.readers[q].id] = ts.active[ts.readers[q].id]
                 /\ ts'.put = ts.put]_vars

(***************************************************************************)
(* The number of grants of a RateLimiter over an interval (checked under   *)
(* SpecLimiter), with both sides of the bound multiplied by per.           *)
(***************************************************************************)
\* The acquire calls i..j that were granted.
GrantedWithin(i, j) == { k \in i..j : acquires[k].granted }

\* C37: the acquire calls granted inside an interval of length T number at
\* most rate + T * rate / per; the shortest interval that holds the calls
\* i..j runs from the time of call i to the time of call j.
C37_GrantsWithinInterval ==
    \A i \in 1..Len(acquires) : \A j \in i..Len(acquires) :
        ~less(add_limbs(wide(to_float(limiter.rate * limiter.per)),
                        times(Between(i, j), limiter.rate), 1, 0),
              wide(to_float(Cardinality(GrantedWithin(i, j)) * limiter.per)))

(***************************************************************************)
(* What a retry wrapper returns (checked under SpecRetry).                 *)
(***************************************************************************)
\* C38: a wrapper returns normally only after an invocation of the wrapped
\* operation that returned normally, for every retry count from 0 on; it
\* never returns without having invoked the operation.
C38_ReturnsOnlyAfterInvocation ==
    retry.pc = "returned"
        => /\ retry.invocations >= 1
           /\ retry.invocations = retry.count + 1

====
